---- MODULE Spec2Model ----
(***************************************************************************)
(* Model of the HTTP connection worker of the WeApRous daemon:             *)
(*   daemon/request.py     Request (parser)                                *)
(*   daemon/response.py    Response (builder, static serving)              *)
(*   daemon/httpadapter.py HttpAdapter.handle_client (connection worker)   *)
(* Python strings are TLA+ strings; the str methods the code calls are     *)
(* operators computed character by character.                              *)
(***************************************************************************)
EXTENDS Integers, Sequences, FiniteSets, TLC

(***************************************************************************)
(* Python str primitives                                                   *)
(***************************************************************************)

\* The value None where the code holds either None or a str.
None == "<None>"

CRLF == "\r\n"

\* s[i] as a one-character string
Ch(s, i) == SubSeq(s, i, i)

\* whitespace as str.split() / str.strip() see it
IsSpace(c) == c \in {" ", "\t", "\r", "\n"}

\* line boundaries as str.splitlines() sees them
IsLineBreak(c) == c \in {"\r", "\n"}

StartsWith(s, p) == Len(s) >= Len(p) /\ SubSeq(s, 1, Len(p)) = p

EndsWith(s, p) == Len(s) >= Len(p) /\ SubSeq(s, Len(s) - Len(p) + 1, Len(s)) = p

\* s.find(sub) + 1: the 1-based index of the first occurrence of sub in s,
\* 0 when there is none
Find(s, sub) ==
    LET hits == {i \in 1..(Len(s) - Len(sub) + 1) :
                    /\ Len(sub) = 0 \/ SubSeq(s, i, i) = SubSeq(sub, 1, 1)
                    /\ SubSeq(s, i, i + Len(sub) - 1) = sub}
    IN  IF hits = {} THEN 0 ELSE CHOOSE i \in hits : \A j \in hits : i <= j

\* sub in s
Contains(s, sub) == Find(s, sub) # 0

\* s.split(sep, 1)
Split1(s, sep) ==
    LET i == Find(s, sep)
    IN  IF i = 0 THEN <<s>>
        ELSE <<SubSeq(s, 1, i - 1), SubSeq(s, i + Len(sep), Len(s))>>

\* s.split(sep)
RECURSIVE SplitAll(_, _)
SplitAll(s, sep) ==
    LET i == Find(s, sep)
    IN  IF i = 0 THEN <<s>>
        ELSE <<SubSeq(s, 1, i - 1)>> \o SplitAll(SubSeq(s, i + Len(sep), Len(s)), sep)

\* s.lstrip() on whitespace
RECURSIVE LStripWs(_)
LStripWs(s) == IF Len(s) > 0 /\ IsSpace(Ch(s, 1)) THEN LStripWs(Tail(s)) ELSE s

\* s.rstrip() on whitespace
RECURSIVE RStripWs(_)
RStripWs(s) ==
    IF Len(s) > 0 /\ IsSpace(Ch(s, Len(s))) THEN RStripWs(SubSeq(s, 1, Len(s) - 1)) ELSE s

\* s.strip()
Strip(s) == RStripWs(LStripWs(s))

\* s.lstrip("/")
RECURSIVE LStripSlash(_)
LStripSlash(s) == IF Len(s) > 0 /\ Ch(s, 1) = "/" THEN LStripSlash(Tail(s)) ELSE s

\* length of the leading run of non-whitespace characters of s
RECURSIVE WordLen(_)
WordLen(s) == IF Len(s) = 0 \/ IsSpace(Ch(s, 1)) THEN 0 ELSE 1 + WordLen(Tail(s))

\* s.split(): the maximal runs of non-whitespace characters
RECURSIVE SplitWs(_)
SplitWs(s) ==
    LET t == LStripWs(s)
        n == WordLen(t)
    IN  IF Len(t) = 0 THEN <<>>
        ELSE <<SubSeq(t, 1, n)>> \o SplitWs(SubSeq(t, n + 1, Len(t)))

\* length of the leading run of characters of s that are not line breaks
RECURSIVE LineLen(_)
LineLen(s) == IF Len(s) = 0 \/ IsLineBreak(Ch(s, 1)) THEN 0 ELSE 1 + LineLen(Tail(s))

\* s.splitlines()[0] for a non-empty s
FirstLine(s) == SubSeq(s, 1, LineLen(s))

UpperChars == <<"A","B","C","D","E","F","G","H","I","J","K","L","M",
                "N","O","P","Q","R","S","T","U","V","W","X","Y","Z">>
LowerChars == <<"a","b","c","d","e","f","g","h","i","j","k","l","m",
                "n","o","p","q","r","s","t","u","v","w","x","y","z">>

LowerChar(c) ==
    IF \E i \in 1..26 : UpperChars[i] = c
    THEN LowerChars[CHOOSE i \in 1..26 : UpperChars[i] = c]
    ELSE c

\* s.lower()
RECURSIVE Lower(_)
Lower(s) == IF Len(s) = 0 THEN "" ELSE LowerChar(Ch(s, 1)) \o Lower(Tail(s))

\* s.replace("+", " ")
RECURSIVE ReplacePlus(_)
ReplacePlus(s) ==
    IF Len(s) = 0 THEN ""
    ELSE (IF Ch(s, 1) = "+" THEN " " ELSE Ch(s, 1)) \o ReplacePlus(Tail(s))

(***************************************************************************)
(* Python dict primitives: a dict is a function on its set of keys         *)
(***************************************************************************)

EmptyDict == [k \in {} |-> ""]

\* d[k] = v
DictSet(d, k, v) == [x \in DOMAIN d \cup {k} |-> IF x = k THEN v ELSE d[x]]

\* d.get(k, default)
DictGet(d, k, default) == IF k \in DOMAIN d THEN d[k] ELSE default

(***************************************************************************)
(* daemon/request.py                                                       *)
(***************************************************************************)

\* extract_request_line that leaves the path "/" as it is
extract_request_line_NoRewrite(request) ==
    LET first == FirstLine(request)
        toks  == SplitWs(first)
    IN  IF Len(request) = 0 \/ Len(toks) # 3 THEN <<None, None, None>>
        ELSE <<toks[1], toks[2], toks[3]>>

\* Request.extract_request_line: <<method, path, version>>, or three None
\* when the first line does not split into exactly three tokens.
extract_request_line(request) ==
    LET first == FirstLine(request)
        toks  == SplitWs(first)
    IN  IF Len(request) = 0 \/ Len(toks) # 3 THEN <<None, None, None>>
        ELSE <<toks[1], IF toks[2] = "/" THEN "/index.html" ELSE toks[2], toks[3]>>

\* the loop body of Request.prepare_headers over lines[i..]
RECURSIVE HeaderLoop(_, _, _)
HeaderLoop(lines, i, headers) ==
    IF i > Len(lines) THEN headers
    ELSE IF Contains(lines[i], ": ")
         THEN LET kv == Split1(lines[i], ": ")
              IN  HeaderLoop(lines, i + 1, DictSet(headers, Lower(kv[1]), kv[2]))
         ELSE HeaderLoop(lines, i + 1, headers)

\* Request.prepare_headers: every line after the first one, lower-cased key
prepare_headers(request) == HeaderLoop(SplitAll(request, CRLF), 2, EmptyDict)

\* the loop body of Request.parse_cookies over pairs[i..]
RECURSIVE CookieLoop(_, _, _)
CookieLoop(pairs, i, cookies) ==
    IF i > Len(pairs) THEN cookies
    ELSE IF Contains(pairs[i], "=")
         THEN LET kv == Split1(Strip(pairs[i]), "=")
              IN  CookieLoop(pairs, i + 1, DictSet(cookies, kv[1], kv[2]))
         ELSE CookieLoop(pairs, i + 1, cookies)

\* parse_cookies that splits the header at "," instead of ";"
parse_cookies_SplitComma(headers) ==
    CookieLoop(SplitAll(DictGet(headers, "cookie", ""), ","), 1, EmptyDict)

\* Request.parse_cookies
parse_cookies(headers) ==
    CookieLoop(SplitAll(DictGet(headers, "cookie", ""), ";"), 1, EmptyDict)

\* extract_body that splits at the first line break, not at the blank line
extract_body_FirstLineBreak(request) ==
    LET parts == Split1(request, CRLF)
    IN  IF Len(parts) > 1 THEN parts[2] ELSE ""

\* Request.extract_body
extract_body(request) ==
    LET parts == Split1(request, CRLF \o CRLF)
    IN  IF Len(parts) > 1 THEN parts[2] ELSE ""

\* the loop body of Request.parse_form_data over pairs[i..]
RECURSIVE FormLoop(_, _, _)
FormLoop(pairs, i, form) ==
    IF i > Len(pairs) THEN form
    ELSE IF Contains(pairs[i], "=")
         THEN LET kv == Split1(pairs[i], "=")
              IN  FormLoop(pairs, i + 1, DictSet(form, kv[1], ReplacePlus(kv[2])))
         ELSE FormLoop(pairs, i + 1, form)

\* Request.parse_form_data
parse_form_data(body) ==
    FormLoop(SplitAll(IF body = None THEN "" ELSE body, "&"), 1, EmptyDict)

\* Request.__init__
NewRequest ==
    [method |-> None, path |-> None, version |-> None, headers |-> None,
     cookies |-> None, body |-> None, hook |-> None]

\* RoutePath without the query strip: the whole path is the lookup key
RoutePath_Unstripped(path) == path

\* route_path = self.path.split("?", 1)[0]
RoutePath(path) == Split1(path, "?")[1]

\* routes.get((method, route_path)) of Request.prepare
RouteLookup(rt, method, route_path) ==
    IF <<method, route_path>> \in DOMAIN rt THEN rt[<<method, route_path>>] ELSE None

\* Request.prepare: the parsed Request, or the failure it raises.  self.path
\* is None after a malformed request line, and None has no split().
prepare(request, rt) ==
    LET line == extract_request_line(request)
        hdrs == prepare_headers(request)
    IN  IF DOMAIN rt # {} /\ line[2] = None
        THEN [raised |-> TRUE,
              error  |-> "'NoneType' object has no attribute 'split'",
              req    |-> [NewRequest EXCEPT !.method = line[1], !.path = line[2],
                                           !.version = line[3]]]
        ELSE [raised |-> FALSE,
              error  |-> "",
              req    |-> [method  |-> line[1],
                          path    |-> line[2],
                          version |-> line[3],
                          headers |-> hdrs,
                          cookies |-> parse_cookies(hdrs),
                          body    |-> IF line[1] = "POST" THEN extract_body(request) ELSE "",
                          hook    |-> IF DOMAIN rt # {}
                                      THEN RouteLookup(rt, line[1], RoutePath(line[2]))
                                      ELSE None]]

(***************************************************************************)
(* daemon/response.py                                                      *)
(***************************************************************************)

\* Response.__init__ (the fields the worker reads or writes)
NewResponse ==
    [status_code |-> None, headers |-> EmptyDict, cookies |-> EmptyDict,
     content |-> None, _content |-> ""]

\* set_cookie that formats the cookie but does not store it
set_cookie_NoStore(resp, name, value) == resp

\* Response.set_cookie with the default path and no max_age; the cookie
\* mapping is a CaseInsensitiveDict, which lower-cases the key it stores.
set_cookie(resp, name, value) ==
    [resp EXCEPT !.cookies = DictSet(@, Lower(name), name \o "=" \o value \o "; Path=/")]

\* index of the last occurrence of the character c in s, 0 when there is none
RECURSIVE RFindChar(_, _, _)
RFindChar(s, c, i) ==
    IF i = 0 THEN 0 ELSE IF Ch(s, i) = c THEN i ELSE RFindChar(s, c, i - 1)

\* whether path[a..b] consists of dots only
RECURSIVE AllDots(_, _, _)
AllDots(path, a, b) == a > b \/ (Ch(path, a) = "." /\ AllDots(path, a + 1, b))

\* posixpath.splitext(path)[1]: the suffix from the last dot of the last
\* path component, leading dots of the component not counted
SplitExt(path) ==
    LET slash == RFindChar(path, "/", Len(path))
        dot   == RFindChar(path, ".", Len(path))
    IN  IF dot > slash /\ ~AllDots(path, slash + 1, dot)
        THEN SubSeq(path, dot, Len(path)) ELSE ""

\* mimetypes.types_map restricted to the suffixes the model serves
types_map ==
    [e \in {".html", ".css", ".js", ".png", ".txt", ".json", ".mp4"} |->
        CASE e = ".html" -> "text/html"
          [] e = ".css"  -> "text/css"
          [] e = ".js"   -> "application/javascript"
          [] e = ".png"  -> "image/png"
          [] e = ".txt"  -> "text/plain"
          [] e = ".json" -> "application/json"
          [] e = ".mp4"  -> "video/mp4"]

\* Response.get_mime_type: guess_type raises on None, which is caught
get_mime_type(path) ==
    IF path = None THEN "application/octet-stream"
    ELSE LET ext == SplitExt(path)
         IN  IF ext \in DOMAIN types_map THEN types_map[ext]
             ELSE IF Lower(ext) \in DOMAIN types_map THEN types_map[Lower(ext)]
             ELSE "application/octet-stream"

\* Response.prepare_content_type: the base directory and the Content-Type
\* header, or the ValueError for a MIME family it does not know
prepare_content_type(mime_type) ==
    LET ms   == Split1(mime_type, "/")
        main == ms[1]
        sub  == ms[2]
    IN  IF main = "text"
        THEN [raised |-> FALSE, error |-> "", content_type |-> "text/" \o sub,
              base_dir |-> IF sub = "html" THEN "www/" ELSE "static/"]
        ELSE IF main = "image"
        THEN [raised |-> FALSE, error |-> "", content_type |-> "image/" \o sub,
              base_dir |-> "static/"]
        ELSE IF main = "application"
        THEN [raised |-> FALSE, error |-> "", content_type |-> "application/" \o sub,
              base_dir |-> IF sub # "octet-stream" THEN "apps/" ELSE "static/"]
        ELSE [raised |-> TRUE, error |-> "Invalid MIME type: " \o main \o "/" \o sub,
              content_type |-> "", base_dir |-> ""]

\* lines 79-82: the file build_content opens; a path under /static/ is used
\* as it is, any other path is joined onto the base directory
FilePath(path, base_dir) ==
    IF StartsWith(path, "/static/") THEN LStripSlash(path)
    ELSE base_dir \o LStripSlash(path)

\* whether the directory dir exists: a file lies below it
IsDir(dir, files) == \E f \in DOMAIN files : StartsWith(f, dir \o "/")

\* a relative path without its last component
Dirname(p) ==
    LET cuts == {i \in 1..Len(p) : Ch(p, i) = "/"}
    IN  IF cuts = {} THEN ""
        ELSE SubSeq(p, 1, (CHOOSE i \in cuts : \A j \in cuts : j <= i) - 1)

\* path resolution of open() over the components parts[i..] from the
\* directory at (relative to the working directory): "" and "." stay, ".."
\* leaves a directory that exists, a name goes down; None when a ".." is
\* applied to a directory that does not exist or leaves the working directory
RECURSIVE ResolveLoop(_, _, _, _)
ResolveLoop(parts, i, at, files) ==
    IF i > Len(parts) THEN at
    ELSE IF parts[i] \in {"", "."} THEN ResolveLoop(parts, i + 1, at, files)
    ELSE IF parts[i] = ".."
         THEN IF at # "" /\ IsDir(at, files)
              THEN ResolveLoop(parts, i + 1, Dirname(at), files)
              ELSE None
    ELSE ResolveLoop(parts, i + 1, IF at = "" THEN parts[i] ELSE at \o "/" \o parts[i], files)

\* line 87: the file of the file system that open(filepath) reaches
Resolve(filepath, files) == ResolveLoop(SplitAll(filepath, "/"), 1, "", files)

\* build_content that reports every failed read as a file that does not exist
build_content_ErrorAsMissing(path, base_dir, files) ==
    LET filepath == Resolve(FilePath(path, base_dir), files)
    IN  IF filepath \in DOMAIN files /\ files[filepath].kind = "file"
        THEN <<Len(files[filepath].data), files[filepath].data>>
        ELSE <<0, "File not found">>

\* build_content with another text for the file that does not exist
build_content_OtherSentinel(path, base_dir, files) ==
    LET filepath == Resolve(FilePath(path, base_dir), files)
    IN  IF filepath \notin DOMAIN files THEN <<0, "Not found">>
        ELSE IF files[filepath].kind = "file"
             THEN <<Len(files[filepath].data), files[filepath].data>>
             ELSE <<0, "Error reading file: " \o files[filepath].data>>

\* Response.build_content: <<size, bytes>> read from the file system files,
\* a function from file paths to [kind, data]
build_content(path, base_dir, files) ==
    LET filepath == Resolve(FilePath(path, base_dir), files)
    IN  IF filepath \notin DOMAIN files THEN <<0, "File not found">>
        ELSE IF files[filepath].kind = "file"
             THEN <<Len(files[filepath].data), files[filepath].data>>
             ELSE <<0, "Error reading file: " \o files[filepath].data>>

\* datetime.utcnow().strftime(...) at the time of the response
utcnow == "Thu, 01 Jan 1970 00:00:00 GMT"

\* "\r\n".join(lines[i..])
RECURSIVE JoinCRLF(_, _)
JoinCRLF(lines, i) ==
    IF i > Len(lines) THEN ""
    ELSE IF i = Len(lines) THEN lines[i]
    ELSE lines[i] \o CRLF \o JoinCRLF(lines, i + 1)

\* the Set-Cookie lines of Response.build_response_header, one per entry of
\* the cookie mapping
RECURSIVE CookieLines(_, _)
CookieLines(cookies, names) ==
    IF names = {} THEN <<>>
    ELSE LET n == CHOOSE x \in names : TRUE
         IN  <<"Set-Cookie: " \o cookies[n]>> \o CookieLines(cookies, names \ {n})

\* Response.build_response_header
build_response_header(resp, request) ==
    LET reqhdr == request.headers
        lines  == <<"HTTP/1.1 200 OK",
                    "Accept: " \o DictGet(reqhdr, "Accept", "application/json"),
                    "Accept-Language: " \o DictGet(reqhdr, "Accept-Language", "en-US,en;q=0.9"),
                    "Authorization: " \o DictGet(reqhdr, "Authorization", "Basic <credentials>"),
                    "Cache-Control: no-cache",
                    "Content-Type: " \o DictGet(resp.headers, "Content-Type", "text/html"),
                    "Content-Length: " \o ToString(Len(resp._content)),
                    "Date: " \o utcnow,
                    "Max-Forward: 10",
                    "Pragma: no-cache",
                    "Proxy-Authorization: Basic dXNlcjpwYXNz",
                    "Warning: 199 Miscellaneous warning",
                    "User-Agent: " \o DictGet(reqhdr, "User-Agent", "Chrome/123.0.0.0")>>
                  \o CookieLines(resp.cookies, DOMAIN resp.cookies)
                  \o <<"">>
    IN  JoinCRLF(lines, 1) \o CRLF

\* build_notfound that adds a cookie line to the fixed head
build_notfound_WithCookie ==
    "HTTP/1.1 404 Not Found" \o CRLF \o
    "Accept-Ranges: bytes" \o CRLF \o
    "Content-Type: text/html" \o CRLF \o
    "Content-Length: 13" \o CRLF \o
    "Cache-Control: max-age=86000" \o CRLF \o
    "Connection: close" \o CRLF \o
    "Set-Cookie: auth=true; Path=/" \o CRLF \o
    CRLF \o
    "404 Not Found"

\* Response.build_notfound
build_notfound ==
    "HTTP/1.1 404 Not Found" \o CRLF \o
    "Accept-Ranges: bytes" \o CRLF \o
    "Content-Type: text/html" \o CRLF \o
    "Content-Length: 13" \o CRLF \o
    "Cache-Control: max-age=86000" \o CRLF \o
    "Connection: close" \o CRLF \o
    CRLF \o
    "404 Not Found"

\* the MIME branch of Response.build_response: the type handed to
\* prepare_content_type, or None for the not-found branch
ClassifyStatic(path, mime) ==
    IF EndsWith(path, ".html") \/ mime = "text/html" THEN "text/html"
    ELSE IF mime = "text/css" THEN "text/css"
    ELSE IF EndsWith(path, ".js") \/ mime \in {"application/javascript", "text/javascript"}
         THEN "application/javascript"
    ELSE IF StartsWith(mime, "image/") THEN mime
    ELSE None

\* lines 143-148 of Response.build_response: the dynamic payload is sent
\* as JSON, no MIME type is guessed and no file is read
build_dynamic(resp, request) ==
    LET r1 == [resp EXCEPT !.headers = DictSet(@, "Content-Type", "application/json"),
                           !._content = resp.content]
    IN  [raised |-> FALSE, error |-> "", resp |-> r1,
         packet |-> build_response_header(r1, request) \o r1._content]

\* lines 150-170 of Response.build_response: static serving
build_static(resp, request, files) ==
    IF request.path = None
    THEN [raised |-> TRUE, error |-> "'NoneType' object has no attribute 'endswith'",
          resp |-> resp, packet |-> ""]
    ELSE LET path == request.path
             mime == get_mime_type(path)
             cls  == ClassifyStatic(path, mime)
         IN  IF cls = None
             THEN [raised |-> FALSE, error |-> "", resp |-> resp, packet |-> build_notfound]
             ELSE LET ct == prepare_content_type(cls)
                      r1 == [resp EXCEPT !.headers = DictSet(@, "Content-Type", ct.content_type)]
                      sc == build_content(path, ct.base_dir, files)
                      r2 == [r1 EXCEPT !._content = sc[2]]
                  IN  IF ct.raised
                      THEN [raised |-> TRUE, error |-> ct.error, resp |-> resp, packet |-> ""]
                      ELSE IF sc[1] = 0 /\ sc[2] = "File not found"
                      THEN [raised |-> FALSE, error |-> "", resp |-> r2,
                            packet |-> build_notfound]
                      ELSE [raised |-> FALSE, error |-> "", resp |-> r2,
                            packet |-> build_response_header(r2, request) \o r2._content]

\* build_response that does not look at the dynamic payload
build_response_StaticOnly(resp, request, files) == build_static(resp, request, files)

\* Response.build_response: the packet and the Response as it leaves it, or
\* the failure raised
build_response(resp, request, files) ==
    IF resp.content # None /\ resp.content # ""
    THEN build_dynamic(resp, request)
    ELSE build_static(resp, request, files)

(***************************************************************************)
(* Route handlers                                                          *)
(***************************************************************************)

\* a body that json.loads turns into a mapping with a username and a password
JsonLoginBody == "{\"username\": \"u1\", \"password\": \"p1\"}"

\* the letter e with acute accent, U+00E9; the strings of this module are
\* kept to ASCII and write it as "^", which occurs in no other text
EAcute == "^"

\* a JSON body with a character outside ASCII
JsonUnicodeBody == "{\"a\": \"" \o EAcute \o "\"}"

\* The handlers a route table can hold: co_varnames (parameters first, then
\* local variables), co_argcount, the number of parameters with a default,
\* and whether the callable has a __code__ at all.
\*   hello, echo, login_post  apps/sampleApp.py
\*   chat_login               start_chatApp.py
\*   plain       def plain(): return "ok"
\*   local_body  def local_body(): body = "ok"; return body
\*   prebuilt    def prebuilt(): return Response()
\*   prebuilt_json  def prebuilt_json(): r = Response(); r.content = ...; return r
Handlers ==
    [h \in {"hello", "echo", "login_post", "chat_login",
            "plain", "local_body", "prebuilt", "prebuilt_json"} |->
        CASE h = "hello" ->
               [varnames |-> <<"headers", "body">>, argcount |-> 2, ndefaults |-> 2,
                has_code |-> TRUE]
          [] h = "echo" ->
               [varnames |-> <<"body", "data">>, argcount |-> 1, ndefaults |-> 0,
                has_code |-> TRUE]
          [] h = "login_post" ->
               [varnames |-> <<"req", "username", "password">>, argcount |-> 1,
                ndefaults |-> 0, has_code |-> TRUE]
          [] h = "chat_login" ->
               [varnames |-> <<"headers", "body", "data", "username", "password", "resp", "e">>,
                argcount |-> 2, ndefaults |-> 2, has_code |-> TRUE]
          [] h = "local_body" ->
               [varnames |-> <<"body">>, argcount |-> 0, ndefaults |-> 0, has_code |-> TRUE]
          [] OTHER ->
               [varnames |-> <<>>, argcount |-> 0, ndefaults |-> 0, has_code |-> TRUE]]

HandlerNames == DOMAIN Handlers

\* the declared parameters of a handler: the first co_argcount names
Params(h) == {Handlers[h].varnames[i] : i \in 1..Handlers[h].argcount}

\* the parameters without a default value
Required(h) ==
    {Handlers[h].varnames[i] : i \in 1..(Handlers[h].argcount - Handlers[h].ndefaults)}

\* the value a handler returns (or the failure it raises) once its arguments
\* are bound; body is the text bound to its body parameter, if any
HandlerBody(h, body) ==
    CASE h = "hello" ->
           [raised |-> FALSE, error |-> "", kind |-> "dict", content |-> None,
            text |-> "{'message': 'Hello from SampleApp!'}"]
      [] h = "echo" ->
           [raised |-> FALSE, error |-> "", kind |-> "dict", content |-> None,
            text |-> IF body = JsonLoginBody
                     THEN "{'echo': {'username': 'u1', 'password': 'p1'}}"
                     ELSE IF body = JsonUnicodeBody
                     THEN "{'echo': {'a': '" \o EAcute \o "'}}"
                     ELSE "{'error': 'Invalid JSON in /echo'}"]
      [] h = "login_post" ->
           [raised |-> TRUE, error |-> "'Request' object has no attribute 'parameters'",
            kind |-> "", content |-> None, text |-> ""]
      [] h = "chat_login" ->
           [raised |-> FALSE, error |-> "", kind |-> "str", content |-> None,
            text |-> IF body = JsonLoginBody
                     THEN "{\"status\": \"success\", \"message\": \"Login successful\", \"user\": {\"username\": \"u1\"}}"
                     ELSE "{\"status\": \"error\", \"message\": \"Invalid credentials\"}"]
      [] h = "plain" ->
           [raised |-> FALSE, error |-> "", kind |-> "str", content |-> None, text |-> "ok"]
      [] h = "local_body" ->
           [raised |-> FALSE, error |-> "", kind |-> "str", content |-> None, text |-> "ok"]
      [] h = "prebuilt" ->
           [raised |-> FALSE, error |-> "", kind |-> "Response", content |-> None, text |-> ""]
      [] h = "prebuilt_json" ->
           [raised |-> FALSE, error |-> "", kind |-> "Response",
            content |-> "{\"a\": 1}", text |-> ""]

(***************************************************************************)
(* daemon/httpadapter.py                                                   *)
(***************************************************************************)

\* the names _call_hook inspects: co_varnames, or () without a __code__
HookNames(h) ==
    IF Handlers[h].has_code
    THEN {Handlers[h].varnames[i] : i \in 1..Len(Handlers[h].varnames)}
    ELSE {}

\* the branch of HttpAdapter._call_hook: which arguments the hook is called with
CallConvention(h) ==
    IF "body" \in HookNames(h) THEN "body"
    ELSE IF "req" \in HookNames(h) THEN "req"
    ELSE "none"

\* whether Python can bind the call: hook(body=...), hook(req) or hook()
CallBinds(h, conv) ==
    CASE conv = "body" -> "body" \in Params(h) /\ Required(h) \subseteq {"body"}
      [] conv = "req"  -> Handlers[h].argcount >= 1
                          /\ Required(h) \subseteq {Handlers[h].varnames[1]}
      [] conv = "none" -> Required(h) = {}

\* the TypeError of a call that does not bind
BindError(h, conv) ==
    CASE conv = "body" -> h \o "() got an unexpected keyword argument 'body'"
      [] conv = "req"  -> h \o "() takes 0 positional arguments but 1 was given"
      [] conv = "none" -> h \o "() missing 1 required positional argument"

\* HttpAdapter._call_hook: the convention used and what the call yields
_call_hook(request) ==
    LET h    == request.hook
        conv == CallConvention(h)
        out  == HandlerBody(h, IF conv = "body" THEN request.body ELSE "")
    IN  IF CallBinds(h, conv)
        THEN [conv |-> conv, out |-> out]
        ELSE [conv |-> conv,
              out  |-> [raised |-> TRUE, error |-> BindError(h, conv), kind |-> "",
                        content |-> None, text |-> ""]]

\* HttpAdapter.build_error_response
build_error_response(status_code, message) ==
    LET body == IF status_code = 401
                THEN "<html><body><h1>401 Unauthorized</h1><p>" \o message
                     \o "</p><a href=\"/login.html\">Login Here</a></body></html>"
                ELSE "<html><body><h1>" \o ToString(status_code) \o " " \o message
                     \o "</h1><p>" \o message \o "</p></body></html>"
    IN  "HTTP/1.1 " \o ToString(status_code) \o " " \o message \o CRLF \o
        "Content-Type: text/html" \o CRLF \o
        "Content-Length: " \o ToString(Len(body)) \o CRLF \o
        "Connection: close" \o CRLF \o CRLF \o
        body

\* CredentialsOk that checks the user name only
CredentialsOk_UserOnly(user, pw) == user = "admin"

\* line 145: the one credential pair handle_login accepts
CredentialsOk(user, pw) == user = "admin" /\ pw = "password"

\* HttpAdapter.handle_login: the packet, and the Request and Response as the
\* call leaves them
handle_login(request, resp, files) ==
    LET form == parse_form_data(request.body)
        user == DictGet(form, "username", "")
        pw   == DictGet(form, "password", "")
    IN  IF CredentialsOk(user, pw)
        THEN LET r1 == [set_cookie(resp, "auth", "true") EXCEPT !.status_code = 200]
                 q1 == [request EXCEPT !.path = "/index.html"]
                 b  == build_response(r1, q1, files)
             IN  [raised |-> b.raised, error |-> b.error, packet |-> b.packet,
                  req |-> q1, resp |-> b.resp]
        ELSE [raised |-> FALSE, error |-> "", req |-> request, resp |-> resp,
              packet |-> build_error_response(401, "Unauthorized")]

\* Admitted testing only that a cookie "auth" is present
Admitted_AnyValue(cookies) == "auth" \in DOMAIN cookies

\* line 155: the cookie test of handle_protected_route
Admitted(cookies) == DictGet(cookies, "auth", None) = "true"

\* HttpAdapter.handle_protected_route
handle_protected_route(request, resp, files) ==
    IF Admitted(request.cookies)
    THEN LET q1 == IF request.path = "/" THEN [request EXCEPT !.path = "/index.html"]
                   ELSE request
             b  == build_response(resp, q1, files)
         IN  [raised |-> b.raised, error |-> b.error, packet |-> b.packet,
              req |-> q1, resp |-> b.resp]
    ELSE [raised |-> FALSE, error |-> "", req |-> request, resp |-> resp,
          packet |-> build_error_response(401, "Unauthorized - Please login first")]

\* HookHead that leaves the status line out of the plain-text head
HookHead_NoStatusLine(kind) ==
    IF kind = "dict"
    THEN "HTTP/1.1 200 OK" \o CRLF \o "Content-Type: application/json" \o CRLF
    ELSE "Content-Type: text/plain" \o CRLF

\* lines 64-69: status line and Content-Type for a result that is not a Response
HookHead(kind) ==
    IF kind = "dict"
    THEN "HTTP/1.1 200 OK" \o CRLF \o "Content-Type: application/json" \o CRLF
    ELSE "HTTP/1.1 200 OK" \o CRLF \o "Content-Type: text/plain" \o CRLF

\* the characters of the inputs that UTF-8 encodes in two bytes
TwoByteChars == {EAcute}

\* len(s.encode()): the number of bytes of the UTF-8 encoding of s
EncodedLen(s) == Len(s) + Cardinality({i \in 1..Len(s) : Ch(s, i) \in TwoByteChars})

\* the packet handle_client builds from what a hook returned (lines 61-70)
HookPacket(out, request, files) ==
    IF out.kind = "Response"
    THEN LET b == build_response([NewResponse EXCEPT !.content = out.content], request, files)
         IN  [raised |-> b.raised, error |-> b.error, packet |-> b.packet]
    ELSE LET head == HookHead(out.kind)
         IN  [raised |-> FALSE, error |-> "",
              packet |-> head \o "Content-Length: " \o ToString(Len(out.text))
                         \o CRLF \o CRLF \o out.text]

(***************************************************************************)
(* Inputs: route tables, file systems and the buffers a client can send    *)
(***************************************************************************)

\* largest number of entries of a route table
MaxRoutes == 1

RouteKeys ==
    {<<"GET", "/">>, <<"GET", "/index.html">>, <<"POST", "/login">>, <<"GET", "/hello">>}

\* every route table with at most MaxRoutes entries
RouteTables ==
    UNION {[ks -> HandlerNames] : ks \in {k \in SUBSET RouteKeys : Cardinality(k) <= MaxRoutes}}

IndexHtml == "<html><body>index</body></html>"

\* one file of every MIME family, each under the base directory of the
\* classification of prepare_content_type
StaticFiles ==
    {"www/index.html", "static/style.css", "static/app.js", "static/logo.png",
     "static/notes.txt", "static/blob", "apps/data.json", "static/clip.mp4"}

\* the request paths of those files, and a path under /static/
StaticTargets ==
    {"/app.js", "/logo.png", "/notes.txt", "/blob", "/data.json", "/clip.mp4",
     "/static/style.css", "/static/page.html"}

\* the files under the working directory of the server
FileSystems ==
    {[f \in {} |-> [kind |-> "file", data |-> ""]],
     [f \in StaticFiles |->
        [kind |-> "file",
         data |-> IF f = "www/index.html" THEN IndexHtml
                  ELSE IF f = "static/style.css" THEN "body{}"
                  ELSE "data of " \o f]],
     [f \in {"www/index.html"} |->
        [kind |-> "dir", data |-> "[Errno 21] Is a directory: 'www/index.html'"]]}

\* other spellings of the path of www/index.html
AliasTargets == {"//index.html", "/static/../www/index.html"}

Methods == {"GET", "POST", "HEAD"}

Targets == {"/", "/index.html", "/login", "/hello", "/?q=1", "/hello?q=1", "/style.css", "/nope"}

CookieHeaders ==
    {"", "Cookie: auth=true", "Cookie: auth=false", "cookie: sid=1; auth=true",
     "Cookie: auth = true"}

\* request headers that the response header block echoes back
EchoHeaders ==
    {"Accept: text/css", "accept-language: vi", "Authorization: Bearer t0",
     "User-Agent: curl/8.0"}

Bodies ==
    {"", "username=admin&password=password", "username=admin&password=wrongpass",
     "password=password", "username=admin&password=password&password=x",
     "password=x&username=admin&password=password", JsonLoginBody}

\* the text of a request: request line, one optional header line, blank
\* line, body
RawRequest(method, target, header, body) ==
    method \o " " \o target \o " HTTP/1.1" \o CRLF
    \o (IF header = "" THEN "" ELSE header \o CRLF) \o CRLF \o body

\* buffers whose first line is not "METHOD PATH VERSION"
Malformed == {"GARBAGE" \o CRLF \o CRLF, "GET /" \o CRLF \o CRLF, CRLF \o "GET / HTTP/1.1"}

\* what conn.recv(1024) can return: bytes that decode to a text (possibly
\* empty, when the client closed), or bytes that are not UTF-8
Wire ==
    {[decodable |-> TRUE, text |-> RawRequest("GET", t, c, "")] :
        t \in Targets, c \in {"", "Cookie: auth=true"}}
    \cup
    {[decodable |-> TRUE, text |-> RawRequest("POST", t, "", "")] : t \in Targets}
    \cup
    {[decodable |-> TRUE, text |-> RawRequest("GET", t, c, "")] :
        t \in {"/", "/index.html"}, c \in CookieHeaders}
    \cup
    {[decodable |-> TRUE, text |-> RawRequest(m, t, c, "")] :
        m \in {"POST", "HEAD"}, t \in {"/", "/index.html"}, c \in {"", "Cookie: auth=true"}}
    \cup
    {[decodable |-> TRUE, text |-> RawRequest("HEAD", "/", "cookie: sid=1; auth=true", "")]}
    \cup
    {[decodable |-> TRUE, text |-> RawRequest("POST", "/login", "", b)] : b \in Bodies}
    \cup
    {[decodable |-> TRUE, text |-> RawRequest("GET", "/login", "", b)] :
        b \in {"username=admin&password=password"}}
    \cup
    {[decodable |-> TRUE, text |-> RawRequest("POST", "/login", "", JsonUnicodeBody)]}
    \cup
    {[decodable |-> TRUE, text |-> RawRequest("GET", "/hello", "", JsonLoginBody)]}
    \cup
    {[decodable |-> TRUE, text |-> RawRequest("GET", "/index.html", "", "Cookie: auth=true")]}
    \cup
    {[decodable |-> TRUE, text |-> RawRequest("GET", "/style.css", h, "")] : h \in EchoHeaders}
    \cup
    {[decodable |-> TRUE, text |-> RawRequest("GET", "/hello", "Accept: text/css", "")]}
    \cup
    {[decodable |-> TRUE, text |-> RawRequest("GET", t, "", "")] :
        t \in StaticTargets \cup AliasTargets}
    \cup
    {[decodable |-> TRUE, text |-> t] : t \in Malformed \cup {""}}
    \cup
    {[decodable |-> FALSE, text |-> ""]}

(***************************************************************************)
(* HttpAdapter.handle_client: the worker of one accepted connection        *)
(***************************************************************************)

VARIABLES
    routes,   \* the route table handed to the adapter
    files,    \* the file system static serving reads
    pc,       \* the position of the worker in handle_client
    raw,      \* the decoded buffer of conn.recv
    req,      \* self.request
    resp,     \* self.response
    sent,     \* the packets passed to conn.sendall, in order
    closed,   \* the number of conn.close() calls
    recvs,    \* the number of conn.recv() calls
    error,    \* the text of the exception being handled, or None
    branch,   \* the branch of the priority chain that was entered, or None
    call,     \* the hook call: handler, convention, argument and outcome
    lpc,      \* the position of the listener in run_backend
    conns,    \* the worker thread of each accepted connection, in accept order
    lerr,     \* the call whose socket.error ended run_backend, or None
    ck,       \* a cookie on its way through set_cookie and parse_cookies
    active_peers,  \* start_chatApp.py: peer-id -> record with last_seen
    channels,      \* start_chatApp.py: channel name -> members and messages
    _PEER_LOCK,    \* the thread that holds the peer-registry lock, or None
    _CHAN_LOCK,    \* the thread that holds the channel-registry lock, or None
    clock,         \* time.time(), in seconds
    th,            \* the handler threads: position and request of each
    sw,            \* the sweeper thread cleanup_peers
    started,       \* the number of handler invocations begun
    accepted       \* the number of broadcasts and sends answered with success

\* the state of the listener (daemon/backend.py)
lvars == <<lpc, conns, lerr>>

\* the state of the chat application (start_chatApp.py)
cvars == <<active_peers, channels, _PEER_LOCK, _CHAN_LOCK, clock, th, sw, started, accepted>>

\* the state that is not the worker's
ovars == <<lvars, ck, cvars>>

vars == <<routes, files, pc, raw, req, resp, sent, closed, recvs, error, branch, call,
          lpc, conns, lerr, ck,
          active_peers, channels, _PEER_LOCK, _CHAN_LOCK, clock, th, sw, started, accepted>>

\* the handler threads of the chat application
Threads == {"t1", "t2"}

\* no request is being handled
NoRequest ==
    [op |-> None, peer_id |-> None, port |-> None, from_peer |-> None, to_peer |-> None,
     message |-> None, channel |-> None]

\* the chat application is not running
ChatOff ==
    /\ active_peers = EmptyDict
    /\ channels = EmptyDict
    /\ _PEER_LOCK = None
    /\ _CHAN_LOCK = None
    /\ clock = 0
    /\ th = [t \in Threads |-> [pc |-> "off", rq |-> NoRequest]]
    /\ sw = [pc |-> "off", now |-> 0, wake |-> 0, runs |-> 0]
    /\ started = 0
    /\ accepted = 0

\* no cookie is on its way
NoCookie == [pc |-> "off", name |-> "", value |-> "", resp |-> NewResponse, jar |-> EmptyDict]

NoCall == [hook |-> None, conv |-> None, arg |-> None, out |-> None]

Init ==
    /\ routes \in RouteTables
    /\ files \in FileSystems
    /\ pc = "recv"
    /\ raw = None
    /\ req = NewRequest
    /\ resp = NewResponse
    /\ sent = <<>>
    /\ closed = 0
    /\ recvs = 0
    /\ error = None
    /\ branch = None
    /\ call = NoCall
    /\ lpc = "off"
    /\ conns = <<>>
    /\ lerr = None
    /\ ck = NoCookie
    /\ ChatOff

\* line 44-48: raw = conn.recv(1024).decode(); an empty read closes and returns
Recv ==
    /\ pc = "recv"
    /\ \E w \in Wire :
         /\ recvs' = recvs + 1
         /\ IF ~w.decodable
            THEN /\ pc' = "except"
                 /\ error' = "'utf-8' codec can't decode byte 0xff in position 0: invalid start byte"
                 /\ UNCHANGED <<raw, closed>>
            ELSE IF w.text = ""
            THEN /\ pc' = "finally"
                 /\ raw' = w.text
                 /\ closed' = closed + 1
                 /\ UNCHANGED error
            ELSE /\ pc' = "prepare"
                 /\ raw' = w.text
                 /\ UNCHANGED <<closed, error>>
    /\ UNCHANGED <<routes, files, req, resp, sent, branch, call>>
    /\ UNCHANGED ovars

\* the worker after req.prepare returned or raised r
Prepared(r) ==
    /\ req' = r.req
    /\ IF r.raised
       THEN pc' = "except" /\ error' = r.error
       ELSE pc' = "dispatch" /\ UNCHANGED error

\* line 50: req.prepare(raw, routes)
Prepare ==
    /\ pc = "prepare"
    /\ Prepared(prepare(raw, routes))
    /\ UNCHANGED <<routes, files, raw, resp, sent, closed, recvs, branch, call>>
    /\ UNCHANGED ovars

\* SelectBranch with the login flow tested before the hook
SelectBranch_LoginFirst(request) ==
    IF request.method = "POST" /\ request.path = "/login" THEN "login"
    ELSE IF request.hook # None THEN "hook"
    ELSE IF request.path \in {"/", "/index.html"} THEN "guard"
    ELSE "static"

\* lines 53, 77, 83, 89: the branch of the priority chain the request takes
SelectBranch(request) ==
    IF request.hook # None THEN "hook"
    ELSE IF request.method = "POST" /\ request.path = "/login" THEN "login"
    ELSE IF request.path \in {"/", "/index.html"} THEN "guard"
    ELSE "static"

Dispatch ==
    /\ pc = "dispatch"
    /\ branch' = SelectBranch(req)
    /\ pc' = SelectBranch(req)
    /\ UNCHANGED <<routes, files, raw, req, resp, sent, closed, recvs, error, call>>
    /\ UNCHANGED ovars

\* the worker after the hook call c returned or raised
HookCalled(c) ==
    /\ call' = [hook |-> req.hook,
                conv |-> c.conv,
                arg  |-> CASE c.conv = "body" -> [body |-> req.body]
                           [] c.conv = "req"  -> [req |-> req]
                           [] OTHER           -> None,
                out  |-> c.out]
    /\ IF c.out.raised
       THEN pc' = "except" /\ error' = c.out.error
       ELSE pc' = "hook_send" /\ UNCHANGED error

\* line 58: result = self._call_hook(req)
CallHook ==
    /\ pc = "hook"
    /\ HookCalled(_call_hook(req))
    /\ UNCHANGED <<routes, files, raw, req, resp, sent, closed, recvs, branch>>
    /\ UNCHANGED ovars

\* conn.sendall(packet); conn.close(); return, for the packet of r, or the
\* jump to the except clause when building it raised
SendCloseReturn(r) ==
    IF r.raised
    THEN pc' = "except" /\ error' = r.error /\ UNCHANGED <<sent, closed>>
    ELSE /\ sent' = Append(sent, r.packet)
         /\ closed' = closed + 1
         /\ pc' = "finally"
         /\ UNCHANGED error

\* the Request and the Response as handle_login / handle_protected_route
\* leave them
Mutated(r) == req' = r.req /\ resp' = r.resp

\* lines 61-74: build the packet from the result, send it, close, return
SendHookResult ==
    /\ pc = "hook_send"
    /\ SendCloseReturn(HookPacket(call.out, req, files))
    /\ UNCHANGED <<routes, files, raw, req, resp, recvs, branch, call>>
    /\ UNCHANGED ovars

\* the worker after handle_login returned or raised r
LoginStep(r) == Mutated(r) /\ SendCloseReturn(r)

\* lines 77-80: conn.sendall(self.handle_login(req, resp)); close; return
Login ==
    /\ pc = "login"
    /\ LoginStep(handle_login(req, resp, files))
    /\ UNCHANGED <<routes, files, raw, recvs, branch, call>>
    /\ UNCHANGED ovars

\* the worker after handle_protected_route returned or raised r
ProtectedStep(r) == Mutated(r) /\ SendCloseReturn(r)

\* lines 83-86: conn.sendall(self.handle_protected_route(req, resp)); close; return
Protected ==
    /\ pc = "guard"
    /\ ProtectedStep(handle_protected_route(req, resp, files))
    /\ UNCHANGED <<routes, files, raw, recvs, branch, call>>
    /\ UNCHANGED ovars

\* the worker after resp.build_response returned or raised b
StaticStep(b) ==
    /\ resp' = b.resp
    /\ IF b.raised
       THEN pc' = "except" /\ error' = b.error /\ UNCHANGED sent
       ELSE /\ sent' = Append(sent, b.packet)
            /\ pc' = "finally"
            /\ UNCHANGED error

\* line 89: conn.sendall(resp.build_response(req))
Static ==
    /\ pc = "static"
    /\ StaticStep(build_response(resp, req, files))
    /\ UNCHANGED <<routes, files, raw, req, closed, recvs, branch, call>>
    /\ UNCHANGED ovars

\* Except that answers with a 500 that does not carry the failure text
Except_Generic ==
    /\ pc = "except"
    /\ sent' = Append(sent, build_error_response(500, "Internal Server Error"))
    /\ pc' = "finally"
    /\ UNCHANGED <<routes, files, raw, req, resp, closed, recvs, error, branch, call>>
    /\ UNCHANGED ovars

\* lines 91-92: except Exception as e: send the 500 envelope
Except ==
    /\ pc = "except"
    /\ sent' = Append(sent, build_error_response(500, "Internal Server Error: " \o error))
    /\ pc' = "finally"
    /\ UNCHANGED <<routes, files, raw, req, resp, closed, recvs, error, branch, call>>
    /\ UNCHANGED ovars

\* Finally that does not close the socket
Finally_NoClose ==
    /\ pc = "finally"
    /\ pc' = "done"
    /\ UNCHANGED <<routes, files, raw, req, resp, sent, closed, recvs, error, branch, call>>
    /\ UNCHANGED ovars

\* lines 93-94: finally: conn.close()
Finally ==
    /\ pc = "finally"
    /\ closed' = closed + 1
    /\ pc' = "done"
    /\ UNCHANGED <<routes, files, raw, req, resp, sent, recvs, error, branch, call>>
    /\ UNCHANGED ovars

Next ==
    \/ Recv
    \/ Prepare
    \/ Dispatch
    \/ CallHook
    \/ SendHookResult
    \/ Login
    \/ Protected
    \/ Static
    \/ Except
    \/ Finally

Spec == Init /\ [][Next]_vars

\* The packet handle_client sends for a decoded, non-empty buffer, as a
\* function of the buffer, the route table and the file system: the
\* composition of the steps above.

\* lines 91-92: the 500 envelope for the failure text e
Failure500(e) == build_error_response(500, "Internal Server Error: " \o e)

\* the packet of r, or the 500 envelope when building it raised
PacketOr500(r) == IF r.raised THEN Failure500(r.error) ELSE r.packet

\* lines 58-72, for the hook call c of the request q
RespondHook(c, q, fs) ==
    IF c.out.raised THEN Failure500(c.out.error)
    ELSE PacketOr500(HookPacket(c.out, q, fs))

\* lines 53-89, for the prepared request q
RespondPrepared(q, fs) ==
    CASE SelectBranch(q) = "hook"   -> RespondHook(_call_hook(q), q, fs)
      [] SelectBranch(q) = "login"  -> PacketOr500(handle_login(q, NewResponse, fs))
      [] SelectBranch(q) = "guard"  -> PacketOr500(handle_protected_route(q, NewResponse, fs))
      [] SelectBranch(q) = "static" -> PacketOr500(build_response(NewResponse, q, fs))

\* lines 50-92, for the outcome p of req.prepare
RespondParsed(p, fs) ==
    IF p.raised THEN Failure500(p.error) ELSE RespondPrepared(p.req, fs)

\* lines 44-92: the response to the decoded buffer text
Respond(text, rt, fs) == RespondParsed(prepare(text, rt), fs)

(***************************************************************************)
(* daemon/backend.py: run_backend, the listener, and the threads it starts *)
(***************************************************************************)

\* largest number of connections accepted in a run
MaxConns == 3

\* the variables of the worker of one connection, which run_backend leaves alone
wvars == <<routes, files, pc, raw, req, resp, sent, closed, recvs, error, branch, call>>

\* line 29: the socket exists, nothing is bound yet; the route table was
\* filled before run_backend is called
InitListener ==
    /\ routes \in {rt \in RouteTables : DOMAIN rt = {}}
    /\ files \in {fs \in FileSystems : DOMAIN fs = {}}
    /\ pc = "off"
    /\ raw = None
    /\ req = NewRequest
    /\ resp = NewResponse
    /\ sent = <<>>
    /\ closed = 0
    /\ recvs = 0
    /\ error = None
    /\ branch = None
    /\ call = NoCall
    /\ lpc = "bind"
    /\ conns = <<>>
    /\ lerr = None
    /\ ck = NoCookie
    /\ ChatOff

\* lines 45-46: except socket.error: print; run_backend returns
SocketError(what) ==
    /\ lpc' = "returned"
    /\ lerr' = what

\* line 31: server.bind((ip, port)) succeeds or raises socket.error
Bind ==
    /\ lpc = "bind"
    /\ \/ lpc' = "listen" /\ UNCHANGED lerr
       \/ SocketError("bind")
    /\ UNCHANGED <<conns, wvars, ck, cvars>>

\* line 32: server.listen(50) succeeds or raises socket.error
Listen ==
    /\ lpc = "listen"
    /\ \/ lpc' = "accept" /\ UNCHANGED lerr
       \/ SocketError("listen")
    /\ UNCHANGED <<conns, wvars, ck, cvars>>

\* line 39: server.accept() returns a connection
Accept ==
    /\ lpc = "accept"
    /\ Len(conns) < MaxConns
    /\ conns' = Append(conns, "new")
    /\ lpc' = "start"
    /\ UNCHANGED <<lerr, wvars, ck, cvars>>

\* line 39: server.accept() raises socket.error, which leaves the while loop
AcceptError ==
    /\ lpc = "accept"
    /\ SocketError("accept")
    /\ UNCHANGED <<conns, wvars, ck, cvars>>

\* lines 40-45: the daemon thread of the connection is created and started;
\* the loop goes back to accept without joining it
StartThread ==
    /\ lpc = "start"
    /\ conns' = [conns EXCEPT ![Len(conns)] = "recv"]
    /\ lpc' = "accept"
    /\ UNCHANGED <<lerr, wvars, ck, cvars>>

\* a thread runs as long as the process does: the threads are daemon threads,
\* and the process ends once run_backend has returned
Alive(i) == i \in 1..Len(conns) /\ lpc # "returned"

\* handle_client of thread i: conn.recv returns (it may also never return)
WorkerRecv(i) ==
    /\ Alive(i)
    /\ conns[i] = "recv"
    /\ conns' = [conns EXCEPT ![i] = "handling"]
    /\ UNCHANGED <<lpc, lerr, wvars, ck, cvars>>

\* handle_client of thread i returns after closing its connection
WorkerReturn(i) ==
    /\ Alive(i)
    /\ conns[i] = "handling"
    /\ conns' = [conns EXCEPT ![i] = "closed"]
    /\ UNCHANGED <<lpc, lerr, wvars, ck, cvars>>

\* an exception leaves handle_client of thread i (a failing sendall inside
\* the except clause): the thread ends, the exception stays in the thread
WorkerRaise(i) ==
    /\ Alive(i)
    /\ conns[i] = "handling"
    /\ conns' = [conns EXCEPT ![i] = "raised"]
    /\ UNCHANGED <<lpc, lerr, wvars, ck, cvars>>

NextListener ==
    \/ Bind
    \/ Listen
    \/ Accept
    \/ AcceptError
    \/ StartThread
    \/ \E i \in 1..MaxConns : WorkerRecv(i)
    \/ \E i \in 1..MaxConns : WorkerReturn(i)
    \/ \E i \in 1..MaxConns : WorkerRaise(i)

SpecListener == InitListener /\ [][NextListener]_vars

(***************************************************************************)
(* Response.set_cookie followed by Request.parse_cookies                   *)
(***************************************************************************)

\* longest cookie name drawn from the alphabet
MaxNameLen == 4

CookieAlphabet == {"P", "a", "t", "h"}

\* the strings of exactly n characters of the alphabet
RECURSIVE CookieStrings(_)
CookieStrings(n) ==
    IF n = 0 THEN {""}
    ELSE {s \o c : s \in CookieStrings(n - 1), c \in CookieAlphabet}

\* cookie names without ";", "=" or surrounding whitespace
CookieNames ==
    UNION {CookieStrings(n) : n \in 0..MaxNameLen} \cup {"auth", "Auth", "session id"}

\* cookie values without ";", "=" or surrounding whitespace
CookieValues == {"", "true", "a b", "/", "Path"}

InitCookie ==
    /\ routes \in {rt \in RouteTables : DOMAIN rt = {}}
    /\ files \in {fs \in FileSystems : DOMAIN fs = {}}
    /\ pc = "off"
    /\ raw = None
    /\ req = NewRequest
    /\ resp = NewResponse
    /\ sent = <<>>
    /\ closed = 0
    /\ recvs = 0
    /\ error = None
    /\ branch = None
    /\ call = NoCall
    /\ lpc = "off"
    /\ conns = <<>>
    /\ lerr = None
    /\ \E n \in CookieNames, v \in CookieValues :
         ck = [NoCookie EXCEPT !.pc = "start", !.name = n, !.value = v]
    /\ ChatOff

\* resp.set_cookie(name, value) on a fresh Response
SetCookie ==
    /\ ck.pc = "start"
    /\ ck' = [ck EXCEPT !.pc = "set", !.resp = set_cookie(NewResponse, ck.name, ck.value)]
    /\ UNCHANGED <<wvars, lvars, cvars>>

\* the serialized cookie is the value of the Cookie header of a request,
\* which parse_cookies reads
ParseCookie ==
    /\ ck.pc = "set"
    /\ ck' = [ck EXCEPT !.pc = "parsed",
                        !.jar = parse_cookies(DictSet(EmptyDict, "cookie",
                                                      ck.resp.cookies[Lower(ck.name)]))]
    /\ UNCHANGED <<wvars, lvars, cvars>>

NextCookie ==
    \/ SetCookie
    \/ ParseCookie

SpecCookie == InitCookie /\ [][NextCookie]_vars

(***************************************************************************)
(* start_chatApp.py: the peer registry, the channels and cleanup_peers     *)
(***************************************************************************)

\* largest number of handler invocations of a run
MaxRequests == 2

\* largest number of sweeps of a run
MaxSweeps == 2

\* the time at which the clock stops
MaxTime == 301

\* line 341: _cleanup_expired(ttl=300)
TTL == 300

\* lines 343, 345: time.sleep(60)
SleepSeconds == 60

\* the instants at which the clock is read: the start, one second later,
\* and one second more than ttl after the start
Times == {time \in {0, 1, TTL + 1} : time <= MaxTime}

\* the name the sweeper thread holds a lock under
Sweeper == "sweeper"

\* the parsed JSON body of a request (data of each handler), with the handler
\* it is sent to; None is a key the body does not have
Request(op, peer_id, port, from_peer, to_peer, message, channel) ==
    [op |-> op, peer_id |-> peer_id, port |-> port, from_peer |-> from_peer,
     to_peer |-> to_peer, message |-> message, channel |-> channel]

\* the requests clients send; "carol" never registers, and every submit-info
\* carries an ip
Requests ==
    {Request("login", None, None, None, None, None, None),
     Request("get_list", None, None, None, None, None, None),
     Request("get_messages", None, None, None, None, None, None),
     Request("channels", None, None, None, None, None, None),
     Request("submit_info", "alice", "9999", None, None, None, None),
     Request("submit_info", "bob", "9999", None, None, None, None),
     Request("submit_info", None, "9999", None, None, None, None),
     Request("submit_info", "alice", "abc", None, None, None, None),
     Request("connect_peer", None, None, "alice", "bob", None, None),
     Request("broadcast_peer", None, None, "alice", None, "hi", None),
     Request("broadcast_peer", None, None, "alice", None, None, "dev"),
     Request("send_peer", None, None, "carol", "bob", "yo", "general"),
     Request("send_peer", None, None, "alice", None, "yo", None)}

\* _safe_get(data, 'port', caster=int): the integer (as its decimal text),
\* None when the key is missing or int() fails
SafePort(port) == IF port \in {"9999", "0"} THEN port ELSE None

\* truth of an integer in "if not (a and b)": None and 0 are false
TruthyInt(n) == n \notin {None, "0"}

\* truth of a string in "if not (a and b)": None and "" are false
Truthy(v) == v \notin {None, ""}

\* whether the handler passes its "Missing ..." test (lines 172, 211, 238, 269)
Valid(rq) ==
    CASE rq.op = "submit_info"    -> Truthy(rq.peer_id) /\ TruthyInt(SafePort(rq.port))
      [] rq.op = "connect_peer"   -> Truthy(rq.from_peer) /\ Truthy(rq.to_peer)
      [] rq.op = "broadcast_peer" -> Truthy(rq.from_peer) /\ Truthy(rq.message)
      [] rq.op = "send_peer"      -> Truthy(rq.from_peer) /\ Truthy(rq.to_peer)
                                     /\ Truthy(rq.message)
      [] OTHER                    -> TRUE

\* lines 236 and 267: the channel of a broadcast or a send; line 267 parses
\* as (channel or "dm-<to>") if to else "dm"
ChannelOf(rq) ==
    IF rq.op = "send_peer"
    THEN IF Truthy(rq.to_peer)
         THEN IF Truthy(rq.channel) THEN rq.channel ELSE "dm-" \o rq.to_peer
         ELSE "dm"
    ELSE IF Truthy(rq.channel) THEN rq.channel ELSE "general"

\* the first call of a handler that takes a lock, "idle" when the handler
\* returns without one (login, and every request that fails its test)
FirstStep(rq) ==
    IF ~Valid(rq) THEN "idle"
    ELSE CASE rq.op = "login"          -> "idle"
           [] rq.op = "submit_info"    -> "_register_peer"
           [] rq.op = "get_list"       -> "_list_peers"
           [] rq.op = "connect_peer"   -> "_get_peer"
           [] rq.op = "broadcast_peer" -> "_ensure_channel"
           [] rq.op = "send_peer"      -> "_ensure_channel"
           [] rq.op = "get_messages"   -> "peek"
           [] rq.op = "channels"       -> "get_channels"

\* the call that follows step in the handler op, "idle" after the last one
NextStep(op, step) ==
    CASE step = "_ensure_channel" -> "_append_message"
      [] step = "_append_message" -> "_touch_peer"
      [] step = "_touch_peer" /\ op = "broadcast_peer" -> "_list_peers"
      [] OTHER -> "idle"

\* the steps that run under _PEER_LOCK and under _CHAN_LOCK
PeerSteps == {"_register_peer", "_touch_peer", "_get_peer", "_list_peers"}

ChanSteps == {"_ensure_channel", "_append_message", "get_messages", "get_channels"}

\* line 29, lines 373-374: both registries empty, no request in progress,
\* the sweeper about to run for the first time
InitChat ==
    /\ routes \in {rt \in RouteTables : DOMAIN rt = {}}
    /\ files \in {fs \in FileSystems : DOMAIN fs = {}}
    /\ pc = "off"
    /\ raw = None
    /\ req = NewRequest
    /\ resp = NewResponse
    /\ sent = <<>>
    /\ closed = 0
    /\ recvs = 0
    /\ error = None
    /\ branch = None
    /\ call = NoCall
    /\ lpc = "off"
    /\ conns = <<>>
    /\ lerr = None
    /\ ck = NoCookie
    /\ active_peers = EmptyDict
    /\ channels = EmptyDict
    /\ _PEER_LOCK = None
    /\ _CHAN_LOCK = None
    /\ clock = 0
    /\ th = [t \in Threads |-> [pc |-> "idle", rq |-> NoRequest]]
    /\ sw = [pc |-> "read", now |-> 0, wake |-> 0, runs |-> 0]
    /\ started = 0
    /\ accepted = 0

\* thread t goes on to the call after step, or returns its response
Proceed(t, step) ==
    LET next == NextStep(th[t].rq.op, step)
    IN  /\ th' = [th EXCEPT ![t] = IF next = "idle" THEN [pc |-> "idle", rq |-> NoRequest]
                                   ELSE [pc |-> next, rq |-> th[t].rq]]
        /\ accepted' = IF next = "idle" /\ th[t].rq.op \in {"broadcast_peer", "send_peer"}
                       THEN accepted + 1 ELSE accepted

\* a handler is invoked with a request and runs up to its first lock
Start(t) ==
    /\ th[t].pc = "idle"
    /\ started < MaxRequests
    /\ \E rq \in Requests :
         th' = [th EXCEPT ![t] = IF FirstStep(rq) = "idle" THEN [pc |-> "idle", rq |-> NoRequest]
                                 ELSE [pc |-> FirstStep(rq), rq |-> rq]]
    /\ started' = started + 1
    /\ UNCHANGED <<active_peers, channels, _PEER_LOCK, _CHAN_LOCK, clock, sw, accepted>>
    /\ UNCHANGED <<wvars, lvars, ck>>

\* "with _PEER_LOCK:" is entered
AcquirePeer(t) ==
    /\ th[t].pc \in PeerSteps
    /\ _PEER_LOCK = None
    /\ _PEER_LOCK' = t
    /\ UNCHANGED <<active_peers, channels, _CHAN_LOCK, clock, th, sw, started, accepted>>
    /\ UNCHANGED <<wvars, lvars, ck>>

\* "with _CHAN_LOCK:" is entered
AcquireChan(t) ==
    /\ th[t].pc \in ChanSteps
    /\ _CHAN_LOCK = None
    /\ _CHAN_LOCK' = t
    /\ UNCHANGED <<active_peers, channels, _PEER_LOCK, clock, th, sw, started, accepted>>
    /\ UNCHANGED <<wvars, lvars, ck>>

\* _ensure_channel that always stores a fresh record
_ensure_channel_Reset(t) ==
    /\ th[t].pc = "_ensure_channel"
    /\ _CHAN_LOCK = t
    /\ channels' = DictSet(channels, ChannelOf(th[t].rq), [members |-> <<>>, messages |-> <<>>])
    /\ _CHAN_LOCK' = None
    /\ Proceed(t, "_ensure_channel")
    /\ UNCHANGED <<active_peers, _PEER_LOCK, clock, sw, started>>
    /\ UNCHANGED <<wvars, lvars, ck>>

\* lines 69-71: the body of "with _CHAN_LOCK" in _ensure_channel, and the release
_ensure_channel(t) ==
    /\ th[t].pc = "_ensure_channel"
    /\ _CHAN_LOCK = t
    /\ channels' = IF ChannelOf(th[t].rq) \in DOMAIN channels THEN channels
                   ELSE DictSet(channels, ChannelOf(th[t].rq),
                                [members |-> <<>>, messages |-> <<>>])
    /\ _CHAN_LOCK' = None
    /\ Proceed(t, "_ensure_channel")
    /\ UNCHANGED <<active_peers, _PEER_LOCK, clock, sw, started>>
    /\ UNCHANGED <<wvars, lvars, ck>>

\* lines 75-80: the entry of a message (its timestamp is left out)
Entry(rq) == [from |-> rq.from_peer, message |-> rq.message, channel |-> ChannelOf(rq)]

\* the members of a sequence
Range(seq) == {seq[i] : i \in 1..Len(seq)}

\* Appended that adds the sender to the members without looking
Appended_NoMemberTest(rec, rq) ==
    [messages |-> Append(rec.messages, Entry(rq)),
     members  |-> Append(rec.members, rq.from_peer)]

\* the channel record after lines 82-84 for the request rq
Appended(rec, rq) ==
    [messages |-> Append(rec.messages, Entry(rq)),
     members  |-> IF rq.from_peer \in Range(rec.members) THEN rec.members
                  ELSE Append(rec.members, rq.from_peer)]

\* lines 81-84: the body of "with _CHAN_LOCK" in _append_message, and the release
_append_message(t) ==
    /\ th[t].pc = "_append_message"
    /\ _CHAN_LOCK = t
    /\ channels' = [channels EXCEPT ![ChannelOf(th[t].rq)] = Appended(@, th[t].rq)]
    /\ _CHAN_LOCK' = None
    /\ Proceed(t, "_append_message")
    /\ UNCHANGED <<active_peers, _PEER_LOCK, clock, sw, started>>
    /\ UNCHANGED <<wvars, lvars, ck>>

\* _touch_peer that stores a record for a sender the registry does not hold
_touch_peer_Upsert(t) ==
    /\ th[t].pc = "_touch_peer"
    /\ _PEER_LOCK = t
    /\ active_peers' = DictSet(active_peers, th[t].rq.from_peer, [last_seen |-> clock])
    /\ _PEER_LOCK' = None
    /\ Proceed(t, "_touch_peer")
    /\ UNCHANGED <<channels, _CHAN_LOCK, clock, sw, started>>
    /\ UNCHANGED <<wvars, lvars, ck>>

\* lines 92-94: _touch_peer
_touch_peer(t) ==
    /\ th[t].pc = "_touch_peer"
    /\ _PEER_LOCK = t
    /\ active_peers' = IF th[t].rq.from_peer \in DOMAIN active_peers
                       THEN [active_peers EXCEPT ![th[t].rq.from_peer].last_seen = clock]
                       ELSE active_peers
    /\ _PEER_LOCK' = None
    /\ Proceed(t, "_touch_peer")
    /\ UNCHANGED <<channels, _CHAN_LOCK, clock, sw, started>>
    /\ UNCHANGED <<wvars, lvars, ck>>

\* _register_peer that returns without releasing the lock
_register_peer_NoRelease(t) ==
    /\ th[t].pc = "_register_peer"
    /\ _PEER_LOCK = t
    /\ active_peers' = DictSet(active_peers, th[t].rq.peer_id, [last_seen |-> clock])
    /\ Proceed(t, "_register_peer")
    /\ UNCHANGED <<channels, _PEER_LOCK, _CHAN_LOCK, clock, sw, started>>
    /\ UNCHANGED <<wvars, lvars, ck>>

\* lines 97-98: _register_peer (ip and port of the record are left out)
_register_peer(t) ==
    /\ th[t].pc = "_register_peer"
    /\ _PEER_LOCK = t
    /\ active_peers' = DictSet(active_peers, th[t].rq.peer_id, [last_seen |-> clock])
    /\ _PEER_LOCK' = None
    /\ Proceed(t, "_register_peer")
    /\ UNCHANGED <<channels, _CHAN_LOCK, clock, sw, started>>
    /\ UNCHANGED <<wvars, lvars, ck>>

\* lines 101-102 and 105-107: _get_peer and _list_peers copy under the lock
ReadPeers(t) ==
    /\ th[t].pc \in {"_get_peer", "_list_peers"}
    /\ _PEER_LOCK = t
    /\ _PEER_LOCK' = None
    /\ Proceed(t, th[t].pc)
    /\ UNCHANGED <<active_peers, channels, _CHAN_LOCK, clock, sw, started>>
    /\ UNCHANGED <<wvars, lvars, ck>>

\* lines 296-297: get_messages tests "general" in channels without a lock
Peek(t) ==
    /\ th[t].pc = "peek"
    /\ th' = [th EXCEPT ![t] = IF "general" \in DOMAIN channels
                               THEN [pc |-> "get_messages", rq |-> th[t].rq]
                               ELSE [pc |-> "idle", rq |-> NoRequest]]
    /\ UNCHANGED <<active_peers, channels, _PEER_LOCK, _CHAN_LOCK, clock, sw, started, accepted>>
    /\ UNCHANGED <<wvars, lvars, ck>>

\* lines 299-300 and 314-323: get_messages and get_channels read under the lock
ReadChannels(t) ==
    /\ th[t].pc \in {"get_messages", "get_channels"}
    /\ _CHAN_LOCK = t
    /\ _CHAN_LOCK' = None
    /\ Proceed(t, th[t].pc)
    /\ UNCHANGED <<active_peers, channels, _PEER_LOCK, clock, sw, started>>
    /\ UNCHANGED <<wvars, lvars, ck>>

\* line 111: now = _now(), before the lock is taken
SweepRead ==
    /\ sw.pc = "read"
    /\ sw' = [sw EXCEPT !.pc = "acquire", !.now = clock]
    /\ UNCHANGED <<active_peers, channels, _PEER_LOCK, _CHAN_LOCK, clock, th, started, accepted>>
    /\ UNCHANGED <<wvars, lvars, ck>>

\* line 113: with _PEER_LOCK
SweepAcquire ==
    /\ sw.pc = "acquire"
    /\ _PEER_LOCK = None
    /\ _PEER_LOCK' = Sweeper
    /\ sw' = [sw EXCEPT !.pc = "locked"]
    /\ UNCHANGED <<active_peers, channels, _CHAN_LOCK, clock, th, started, accepted>>
    /\ UNCHANGED <<wvars, lvars, ck>>

\* Expired that measures the age at the time of the test, not at now
Expired_AtClock(peers, now, time, ttl) ==
    {pid \in DOMAIN peers : time - peers[pid].last_seen > ttl}

\* lines 114-116: the peers whose age at the time now exceeds ttl; time is
\* the time of the test
Expired(peers, now, time, ttl) ==
    {pid \in DOMAIN peers : now - peers[pid].last_seen > ttl}

\* lines 114-118: the body of "with _PEER_LOCK" in _cleanup_expired, the
\* release, and the start of time.sleep(60)
_cleanup_expired ==
    /\ sw.pc = "locked"
    /\ _PEER_LOCK = Sweeper
    /\ active_peers' = [pid \in DOMAIN active_peers \ Expired(active_peers, sw.now, clock, TTL)
                          |-> active_peers[pid]]
    /\ _PEER_LOCK' = None
    /\ sw' = [sw EXCEPT !.pc = "sleep", !.wake = clock + SleepSeconds, !.runs = sw.runs + 1]
    /\ UNCHANGED <<channels, _CHAN_LOCK, clock, th, started, accepted>>
    /\ UNCHANGED <<wvars, lvars, ck>>

\* lines 339-343: time.sleep(60) returns and the loop runs again
SweepWake ==
    /\ sw.pc = "sleep"
    /\ clock >= sw.wake
    /\ sw.runs < MaxSweeps
    /\ sw' = [sw EXCEPT !.pc = "read", !.now = 0, !.wake = 0]
    /\ UNCHANGED <<active_peers, channels, _PEER_LOCK, _CHAN_LOCK, clock, th, started, accepted>>
    /\ UNCHANGED <<wvars, lvars, ck>>

\* time passes
Tick ==
    /\ \E time \in Times :
         /\ time > clock
         /\ clock' = time
    /\ UNCHANGED <<active_peers, channels, _PEER_LOCK, _CHAN_LOCK, th, sw, started, accepted>>
    /\ UNCHANGED <<wvars, lvars, ck>>

\* the steps of handler thread t
ThreadStep(t) ==
    \/ Start(t)
    \/ AcquirePeer(t)
    \/ AcquireChan(t)
    \/ _ensure_channel(t)
    \/ _append_message(t)
    \/ _touch_peer(t)
    \/ _register_peer(t)
    \/ ReadPeers(t)
    \/ Peek(t)
    \/ ReadChannels(t)

\* the steps of the sweeper thread
SweeperStep ==
    \/ SweepRead
    \/ SweepAcquire
    \/ _cleanup_expired
    \/ SweepWake

NextChat ==
    \/ \E t \in Threads : ThreadStep(t)
    \/ SweeperStep
    \/ Tick

SpecChat == InitChat /\ [][NextChat]_vars

\* the steps of handler thread t once its handler was invoked
Running(t) ==
    \/ AcquirePeer(t)
    \/ AcquireChan(t)
    \/ _ensure_channel(t)
    \/ _append_message(t)
    \/ _touch_peer(t)
    \/ _register_peer(t)
    \/ ReadPeers(t)
    \/ Peek(t)
    \/ ReadChannels(t)

\* the threads are scheduled: a thread that can take a step takes one, and
\* a thread that waits for a lock gets it when the lock is free again and
\* again (a thread is at one step at a time, so strong fairness of its
\* steps together is strong fairness of the acquisition it waits for)
Fairness ==
    /\ \A t \in Threads : SF_vars(Running(t))
    /\ SF_vars(SweepRead \/ SweepAcquire \/ _cleanup_expired)

SpecChatFair == InitChat /\ [][NextChat]_vars /\ Fairness

(***************************************************************************)
(* Claims                                                                  *)
(***************************************************************************)

\* the request line "METHOD PATH[?query] HTTP/1.1" of a key of the route table
LineOf(k, q) == k[1] \o " " \o k[2] \o q \o " HTTP/1.1" \o CRLF

\* C1 as stated: for every key (method, path) of the route table, a request
\* whose request line carries that method and that path, with or without a
\* query string, is dispatched to the handler stored under the key, also for
\* a handler registered under "/".
C1_AsStated ==
    \A k \in DOMAIN routes : \A q \in {"", "?q=1"} :
        (pc = "done" /\ StartsWith(raw, LineOf(k, q))) => call.hook = routes[k]

\* C1 amended: the dispatch holds for every key whose path is not "/"; a
\* request whose path is exactly "/" is looked up under (method,
\* "/index.html"), so it reaches the handler of that key when there is one
\* and no hook otherwise.
C1_Dispatch ==
    \A k \in DOMAIN routes : \A q \in {"", "?q=1"} :
        (pc = "done" /\ StartsWith(raw, LineOf(k, q))) =>
            IF k[2] = "/" /\ q = ""
            THEN call.hook = RouteLookup(routes, k[1], "/index.html")
            ELSE call.hook = routes[k]

C1_Witness ==
    /\ pc = "done"
    /\ <<"GET", "/hello">> \in DOMAIN routes
    /\ StartsWith(raw, "GET /hello?q=1 HTTP/1.1")
    /\ call.hook = routes[<<"GET", "/hello">>]
    /\ Len(sent) = 1

\* C2 as stated: a request whose first line is malformed leaves method, path
\* and version absent, and the response sent for it is the fixed 404 Not
\* Found envelope, whether the route table is empty or not.
C2_Malformed404 ==
    (pc = "done" /\ raw \in Malformed) =>
        /\ req.method = None /\ req.path = None /\ req.version = None
        /\ sent = <<build_notfound>>

\* C3: a request with no matched hook whose path is "/" or "/index.html", of
\* any method, is served static content exactly when its cookie "auth" is the
\* string "true"; otherwise the response is the 401 error envelope.
C3_Guard ==
    LET line == extract_request_line(raw)
    IN  (pc = "done" /\ line[2] = "/index.html"
         /\ RouteLookup(routes, line[1], "/index.html") = None) =>
            /\ Len(sent) = 1
            /\ IF DictGet(req.cookies, "auth", "") = "true"
               THEN \/ sent[1] = build_notfound
                    \/ StartsWith(sent[1], "HTTP/1.1 200 OK" \o CRLF)
               ELSE sent[1] = build_error_response(401, "Unauthorized - Please login first")

C3_Witness ==
    /\ pc = "done"
    /\ branch = "guard"
    /\ StartsWith(raw, "HEAD / HTTP/1.1" \o CRLF \o "cookie: sid=1; auth=true")
    /\ Len(sent) = 1
    /\ StartsWith(sent[1], "HTTP/1.1 200 OK" \o CRLF)
    /\ EndsWith(sent[1], CRLF \o CRLF \o IndexHtml)

\* the request is POST /login, no hook is registered for it, and its body
\* form-decodes to the accepted credentials (ok) or to anything else (~ok)
LoginRequest(ok) ==
    LET line == extract_request_line(raw)
        form == parse_form_data(extract_body(raw))
    IN  /\ line[1] = "POST" /\ line[2] = "/login"
        /\ <<"POST", "/login">> \notin DOMAIN routes
        /\ ok = (DictGet(form, "username", "") = "admin"
                 /\ DictGet(form, "password", "") = "password")

\* C4: without a hook for (POST, /login), a POST /login with username "admin"
\* and password "password" sets the cookie auth=true on the response,
\* rewrites the path to "/index.html" and serves that path; when
\* www/index.html exists the response is a 200 with a Set-Cookie line for
\* auth=true.
C4_LoginOk ==
    (pc = "done" /\ LoginRequest(TRUE)) =>
        /\ DictGet(resp.cookies, "auth", "") = "auth=true; Path=/"
        /\ req.path = "/index.html"
        /\ Len(sent) = 1
        /\ "www/index.html" \in DOMAIN files =>
              /\ StartsWith(sent[1], "HTTP/1.1 200 OK" \o CRLF)
              /\ Contains(Split1(sent[1], CRLF \o CRLF)[1],
                          CRLF \o "Set-Cookie: auth=true; Path=/")
        /\ "www/index.html" \notin DOMAIN files => sent[1] = build_notfound

C4_Witness ==
    /\ pc = "done"
    /\ LoginRequest(TRUE)
    /\ "www/index.html" \in DOMAIN files
    /\ files["www/index.html"].kind = "file"
    /\ StartsWith(sent[1], "HTTP/1.1 200 OK" \o CRLF)
    /\ Contains(sent[1], CRLF \o "Set-Cookie: auth=true; Path=/" \o CRLF)
    /\ EndsWith(sent[1], CRLF \o CRLF \o IndexHtml)

\* C5: without a hook for (POST, /login), a POST /login with any other
\* credentials (missing fields, empty body, a repeated field whose last value
\* differs) is answered with the 401 envelope with the login-page link and
\* without a Set-Cookie line.
C5_LoginRejected ==
    (pc = "done" /\ LoginRequest(FALSE)) =>
        /\ sent = <<build_error_response(401, "Unauthorized")>>
        /\ StartsWith(sent[1], "HTTP/1.1 401 Unauthorized" \o CRLF)
        /\ Contains(sent[1], "<a href=\"/login.html\">Login Here</a>")
        /\ ~Contains(sent[1], "Set-Cookie")
        /\ resp.cookies = EmptyDict

C5_Witness ==
    /\ pc = "done"
    /\ LoginRequest(FALSE)
    /\ EndsWith(raw, "username=admin&password=password&password=x")
    /\ Len(sent) = 1
    /\ StartsWith(sent[1], "HTTP/1.1 401 Unauthorized" \o CRLF)

\* C6: one branch answers a connection, in the priority order hook, login
\* (POST /login), guard ("/" or "/index.html"), static serving; with a hook
\* registered for the request the hook runs and neither the credential check
\* nor the cookie guard is applied.
C6_Priority ==
    LET line  == extract_request_line(raw)
        key   == <<line[1], Split1(line[2], "?")[1]>>
        login == line[1] = "POST" /\ line[2] = "/login"
        index == line[2] = "/index.html"
    IN  (pc = "done" /\ raw # "" /\ line[1] # None) =>
            /\ Len(sent) = 1
            /\ key \in DOMAIN routes =>
                  /\ branch = "hook"
                  /\ call.hook = routes[key]
                  /\ resp = NewResponse
                  /\ ~StartsWith(sent[1], "HTTP/1.1 401")
            /\ key \notin DOMAIN routes => call = NoCall
            /\ (key \notin DOMAIN routes /\ login) => branch = "login"
            /\ (key \notin DOMAIN routes /\ ~login /\ index) => branch = "guard"
            /\ (key \notin DOMAIN routes /\ ~login /\ ~index) =>
                  /\ branch = "static"
                  /\ resp.cookies = EmptyDict
                  /\ ~StartsWith(sent[1], "HTTP/1.1 401")

C6_Witness ==
    /\ pc = "done"
    /\ <<"POST", "/login">> \in DOMAIN routes
    /\ StartsWith(raw, "POST /login HTTP/1.1")
    /\ EndsWith(raw, "username=admin&password=wrongpass")
    /\ branch = "hook"
    /\ call.hook = routes[<<"POST", "/login">>]
    /\ StartsWith(sent[1], "HTTP/1.1 200 OK")

\* C7 as stated: for every matched hook and every kind of value it returns
\* (a pre-built Response, a mapping, any other value) the response sent
\* starts with the status line "HTTP/1.1 200 OK".
C7_AsStated ==
    (pc = "done" /\ branch = "hook" /\ ~call.out.raised) =>
        /\ Len(sent) = 1
        /\ StartsWith(sent[1], "HTTP/1.1 200 OK" \o CRLF)

\* C7 amended: the response starts with "HTTP/1.1 200 OK" for every matched
\* hook that returns a mapping or any other value that is not a Response, and
\* for a returned Response that carries dynamic content; a returned Response
\* without dynamic content is serialized by static serving of the request
\* path and is the 404 Not Found response when that path is not a served
\* file; a hook that raises is answered with a 500.
C7_HookStatus ==
    (pc = "done" /\ branch = "hook") =>
        /\ Len(sent) = 1
        /\ (~call.out.raised /\ call.out.kind \in {"dict", "str"}) =>
              StartsWith(sent[1], "HTTP/1.1 200 OK" \o CRLF)
        /\ (~call.out.raised /\ call.out.kind = "Response" /\ call.out.content # None) =>
              StartsWith(sent[1], "HTTP/1.1 200 OK" \o CRLF)
        /\ (~call.out.raised /\ call.out.kind = "Response" /\ call.out.content = None) =>
              \/ StartsWith(sent[1], "HTTP/1.1 200 OK" \o CRLF)
              \/ sent[1] = build_notfound
        /\ (~call.out.raised /\ call.out.kind = "Response" /\ call.out.content = None
            /\ ~EndsWith(req.path, ".html")) => sent[1] = build_notfound
        /\ call.out.raised => StartsWith(sent[1], "HTTP/1.1 500 ")

C7_Witness ==
    /\ pc = "done"
    /\ branch = "hook"
    /\ call.hook = "echo"
    /\ call.out.kind = "dict"
    /\ Len(sent) = 1
    /\ StartsWith(sent[1], "HTTP/1.1 200 OK" \o CRLF \o "Content-Type: application/json")

\* C8 as stated: a handler that declares a parameter named "body" is called
\* with the body text only, otherwise one that declares a parameter named
\* "req" is called with the complete Request, and a handler that declares
\* neither is called with no arguments.
C8_Convention ==
    call.conv # None =>
        IF "body" \in Params(call.hook)
        THEN call.conv = "body" /\ call.arg.body = req.body
        ELSE IF "req" \in Params(call.hook)
        THEN call.conv = "req" /\ call.arg.req = req
        ELSE call.conv = "none"

\* C9: on every path of the worker the socket ends closed; after a non-empty
\* read exactly one response is sent, and it is sent before the socket is
\* closed; the worker reads from the connection once.
C9_OneCycle ==
    /\ recvs <= 1
    /\ Len(sent) <= 1
    /\ (closed > 0 /\ raw # "") => Len(sent) = 1
    /\ raw = "" => sent = <<>>
    /\ pc = "done" => (closed >= 1 /\ recvs = 1)
    /\ pc = "finally" => ENABLED Finally
    /\ pc \in {"hook_send", "login", "guard", "static"} => (sent = <<>> /\ closed = 0)

C9_Witness ==
    /\ pc = "done"
    /\ branch = "static"
    /\ error = None
    /\ closed = 1
    /\ recvs = 1
    /\ Len(sent) = 1

\* C10: a failure raised while decoding, parsing, invoking a hook or building
\* a response is answered with one 500 envelope whose body embeds the text of
\* the failure, and the worker goes on to close the socket.
C10_Failure500 ==
    /\ pc = "except" => (error # None /\ sent = <<>> /\ ENABLED Except)
    /\ (error # None /\ pc \in {"finally", "done"}) =>
          /\ Len(sent) = 1
          /\ StartsWith(sent[1], "HTTP/1.1 500 Internal Server Error: ")
          /\ Contains(Split1(sent[1], CRLF \o CRLF)[2],
                      "<p>Internal Server Error: " \o error \o "</p>")
    /\ (error = None /\ Len(sent) = 1) => ~StartsWith(sent[1], "HTTP/1.1 500")

C10_Witness ==
    /\ pc = "done"
    /\ call.hook = "login_post"
    /\ error = "'Request' object has no attribute 'parameters'"
    /\ Len(sent) = 1
    /\ StartsWith(sent[1], "HTTP/1.1 500 Internal Server Error: 'Request' object")
    /\ closed = 1

\* the listener is inside the accept loop of run_backend
InLoop == lpc \in {"accept", "start"}

\* C11: once bind and listen have succeeded the accept loop never ends: no
\* step of a worker thread (a failure, a read that stays blocked) and no
\* failing accept call takes the listener out of the loop, and an accept is
\* possible whatever the worker threads are doing.
C11_AcceptLoop ==
    /\ [][InLoop => InLoop']_vars
    /\ []((lpc = "accept" /\ Len(conns) < MaxConns) => ENABLED Accept)

\* the buffer text with the path "/" of its request line replaced by
\* "/index.html", for a request line "m / ..."
AsIndexHtml(text, m) ==
    m \o " /index.html " \o SubSeq(text, Len(m) + 4, Len(text))

\* C12: a request whose path is exactly "/" gets the same hook lookup result
\* and the same response as the request that differs from it only in having
\* the path "/index.html", for every route table, cookie state and file
\* system; and the response to a request for "/index.html" is the one
\* Respond computes for its buffer.
C12_SlashIsIndex ==
    \A m \in Methods :
        /\ (pc = "done" /\ raw # None /\ StartsWith(raw, m \o " /index.html ")) =>
               sent = <<Respond(raw, routes, files)>>
        /\ (pc = "done" /\ raw # None /\ StartsWith(raw, m \o " / ")) =>
               /\ req.hook = prepare(AsIndexHtml(raw, m), routes).req.hook
               /\ sent = <<Respond(AsIndexHtml(raw, m), routes, files)>>

\* GET / with a handler registered under (GET, "/index.html"): the handler
\* is found and called, as for GET /index.html
C12_Witness ==
    /\ pc = "done"
    /\ raw # None
    /\ StartsWith(raw, "GET / ")
    /\ DOMAIN routes = {<<"GET", "/index.html">>}
    /\ routes[<<"GET", "/index.html">>] = "hello"
    /\ call.hook = "hello"
    /\ Len(sent) = 1
    /\ StartsWith(sent[1], "HTTP/1.1 200 OK")

\* a packet whose head was built by Response.build_response_header
StandardHead(packet) == StartsWith(packet, "HTTP/1.1 200 OK" \o CRLF \o "Accept: ")

\* the four echoed headers with their fallback defaults
Echoed ==
    {<<"Accept", "application/json">>, <<"Accept-Language", "en-US,en;q=0.9">>,
     <<"Authorization", "Basic <credentials>">>, <<"User-Agent", "Chrome/123.0.0.0">>}

\* C13: in every response built by the standard header assembly, each of
\* Accept, Accept-Language, Authorization and User-Agent carries the value the
\* request sent for it when the request has that header, and the fallback
\* default only when the request does not have it.
C13_Echo ==
    \A e \in Echoed :
        (pc = "done" /\ Len(sent) = 1 /\ StandardHead(sent[1])) =>
            Contains(sent[1],
                     CRLF \o e[1] \o ": "
                     \o DictGet(req.headers, Lower(e[1]), e[2]) \o CRLF)

\* the finished worker answered through static serving: the static branch,
\* or the guard once the cookie admitted the request
StaticServed ==
    /\ pc = "done"
    /\ req.path # None
    /\ branch = "static" \/ (branch = "guard" /\ Admitted(req.cookies))

\* the file static serving reaches for the path, None for a MIME type that
\* build_response gives no base directory
StaticFile(path) ==
    IF ClassifyStatic(path, get_mime_type(path)) = None THEN None
    ELSE Resolve(FilePath(path, prepare_content_type(ClassifyStatic(path, get_mime_type(path))).base_dir),
                 files)

BaseDirs == {"www/", "static/", "apps/", ""}

\* there is no file for the path: none where static serving looks for it,
\* and, for a type without a base directory, none under any directory
Missing(path) ==
    IF StaticFile(path) # None THEN StaticFile(path) \notin DOMAIN files
    ELSE \A b \in BaseDirs : (b \o LStripSlash(path)) \notin DOMAIN files

\* the fixed 404 response: status line, Content-Length 13, body "404 Not Found"
IsNotFound(packet) ==
    /\ StartsWith(packet, "HTTP/1.1 404 Not Found" \o CRLF)
    /\ Contains(packet, CRLF \o "Content-Length: 13" \o CRLF)
    /\ EndsWith(packet, CRLF \o CRLF \o "404 Not Found")

MainType(mime) == Split1(mime, "/")[1]

\* C15: a static request whose guessed MIME type is of a family outside
\* text, image and application (video/*, audio/*) ends in the ValueError of
\* the response builder, which the worker turns into a 500, and is not
\* answered with the 404 response.
C15_InvalidMime ==
    (StaticServed /\ MainType(get_mime_type(req.path)) \notin {"text", "image", "application"}) =>
        /\ Len(sent) = 1
        /\ StartsWith(sent[1], "HTTP/1.1 500 ")
        /\ Contains(sent[1], "Invalid MIME type")
        /\ ~IsNotFound(sent[1])

\* the base directory the classification table gives a MIME type
TableBase(path, mime) ==
    IF mime = "text/html" THEN "www/"
    ELSE IF MainType(mime) = "text" THEN "static/"
    ELSE IF EndsWith(path, ".js") \/ mime = "application/javascript" THEN "static/"
    ELSE IF MainType(mime) = "image" THEN "static/"
    ELSE IF mime = "application/octet-stream" THEN "static/"
    ELSE IF MainType(mime) = "application" THEN "apps/"
    ELSE None

\* C16: for every static request the file is read from the base directory
\* of the classification table ("www/" for html, "static/" for any other
\* text type, css, javascript, image/* and application/octet-stream, "apps/"
\* for every other application/* type), and an existing file of any of these
\* types under its base directory is served with a 200 response.  A path
\* under /static/, which is used as it is, is left aside.
C16_BaseDirs ==
    (/\ StaticServed
     /\ ~StartsWith(req.path, "/static/")
     /\ TableBase(req.path, get_mime_type(req.path)) # None
     /\ (TableBase(req.path, get_mime_type(req.path)) \o LStripSlash(req.path)) \in DOMAIN files
     /\ files[TableBase(req.path, get_mime_type(req.path)) \o LStripSlash(req.path)].kind = "file")
    =>
        /\ Len(sent) = 1
        /\ StandardHead(sent[1])
        /\ EndsWith(sent[1], CRLF \o CRLF \o
               files[TableBase(req.path, get_mime_type(req.path)) \o LStripSlash(req.path)].data)

\* static serving ran for the finished worker: in the static branch, behind
\* the guard, after a successful login, or for a hook that returned a
\* Response without dynamic content
StaticRan ==
    /\ pc = "done"
    /\ req.path # None
    /\ \/ branch = "static"
       \/ branch = "guard" /\ Admitted(req.cookies)
       \/ branch = "login" /\ DOMAIN resp.cookies # {}
       \/ branch = "hook" /\ call.out.kind = "Response" /\ call.out.content = None

\* the file static serving opens exists but cannot be read as a file
Unreadable(path) ==
    /\ StaticFile(path) # None
    /\ StaticFile(path) \in DOMAIN files
    /\ files[StaticFile(path)].kind # "file"

\* C17: when reading the resolved file fails for a reason other than the
\* file not existing (the path names a directory), the response is emitted
\* through the standard header assembly with status 200 and a body that
\* carries the error message; it is not an error status.
C17_ReadError200 ==
    (StaticRan /\ Unreadable(req.path)) =>
        /\ Len(sent) = 1
        /\ StandardHead(sent[1])
        /\ EndsWith(sent[1], CRLF \o CRLF \o "Error reading file: "
                             \o files[StaticFile(req.path)].data)
        /\ Contains(sent[1], CRLF \o "Content-Length: "
               \o ToString(Len("Error reading file: " \o files[StaticFile(req.path)].data))
               \o CRLF)

\* GET /index.html with the cookie auth=true while www/index.html is a directory
C17_Witness ==
    /\ StaticRan
    /\ branch = "guard"
    /\ req.path = "/index.html"
    /\ Unreadable(req.path)
    /\ Len(sent) = 1
    /\ StandardHead(sent[1])
    /\ Contains(sent[1], "Is a directory")

\* a packet with a 401, 404 or 500 status line
ErrorStatus(packet) ==
    \/ StartsWith(packet, "HTTP/1.1 401 ")
    \/ StartsWith(packet, "HTTP/1.1 404 ")
    \/ StartsWith(packet, "HTTP/1.1 500 ")

\* C18: no 401, 404 or 500 response the worker sends contains a Set-Cookie
\* line, whatever the cookie mapping of the Response holds at that moment
\* (a successful login whose index.html is missing included); a Set-Cookie
\* line appears only in responses built by the standard header assembly.
C18_NoCookieOnError ==
    \A i \in 1..Len(sent) :
        /\ ErrorStatus(sent[i]) => ~StandardHead(sent[i])
        /\ ~StandardHead(sent[i]) => ~Contains(sent[i], "Set-Cookie")

\* a successful login on a file system without www/index.html: the cookie
\* is in the mapping and the response is the 404
C18_Witness ==
    /\ pc = "done"
    /\ branch = "login"
    /\ "auth" \in DOMAIN resp.cookies
    /\ Len(sent) = 1
    /\ IsNotFound(sent[1])
    /\ ~Contains(sent[1], "Set-Cookie")

\* the finished worker's hook returned a Response that carries dynamic content
DynamicResult ==
    /\ pc = "done"
    /\ branch = "hook"
    /\ ~call.out.raised
    /\ call.out.kind = "Response"
    /\ call.out.content # None
    /\ call.out.content # ""

\* C20: when the Response used to build the reply carries non-empty dynamic
\* content, build_response guesses no MIME type and reads no file, whatever
\* the request path (also one that would otherwise give 404): the content is
\* sent with Content-Type application/json under a 200 status line and the
\* standard header assembly.
C20_DynamicContent ==
    DynamicResult =>
        /\ Len(sent) = 1
        /\ StandardHead(sent[1])
        /\ Contains(sent[1], CRLF \o "Content-Type: application/json" \o CRLF)
        /\ Contains(sent[1], CRLF \o "Content-Length: "
                             \o ToString(Len(call.out.content)) \o CRLF)
        /\ EndsWith(sent[1], CRLF \o CRLF \o call.out.content)

\* GET /hello answered by a handler that returns a Response with content,
\* on the empty file system, where static serving of /hello gives the 404
C20_Witness ==
    /\ DynamicResult
    /\ req.path = "/hello"
    /\ DOMAIN files = {}
    /\ IsNotFound(build_static(NewResponse, req, files).packet)
    /\ Len(sent) = 1
    /\ StandardHead(sent[1])

\* C19 as stated: for every cookie name and value without ";", "=" or
\* surrounding whitespace, the string set_cookie(name, value) produces,
\* parsed by parse_cookies as the value of a Cookie header, yields a mapping
\* in which name maps to value.
C19_AsStated ==
    ck.pc = "parsed" => (ck.name \in DOMAIN ck.jar /\ ck.jar[ck.name] = ck.value)

\* C19 amended: the round trip gives name -> value for every such name
\* other than "Path"; the string always ends in the attribute "Path=/",
\* which parse_cookies reads as one more cookie, so that the name "Path"
\* maps to "/".
C19_RoundTrip ==
    ck.pc = "parsed" =>
        /\ ck.name # "Path" => (ck.name \in DOMAIN ck.jar /\ ck.jar[ck.name] = ck.value)
        /\ "Path" \in DOMAIN ck.jar /\ ck.jar["Path"] = "/"

\* the cookie Auth=true after the round trip
C19_Witness ==
    /\ ck.pc = "parsed"
    /\ ck.name = "Auth"
    /\ ck.value = "true"
    /\ ck.resp.cookies["auth"] = "Auth=true; Path=/"
    /\ ck.jar["Auth"] = "true"

\* a hook returned a value that is not a Response and the worker finished
PlainResult ==
    /\ pc = "done"
    /\ branch = "hook"
    /\ call # NoCall
    /\ ~call.out.raised
    /\ call.out.kind \in {"dict", "str"}

\* C21: the result of a matched hook is classified by its kind alone: a
\* mapping is sent with Content-Type application/json, any other value that
\* is not a Response (a string holding JSON included) is sent as its display
\* string with Content-Type text/plain, and in both cases Content-Length
\* equals the length in bytes of the body that is emitted.
C21_HookResultKind ==
    PlainResult =>
        /\ Len(sent) = 1
        /\ sent[1] = "HTTP/1.1 200 OK" \o CRLF
                     \o "Content-Type: "
                     \o (IF call.out.kind = "dict" THEN "application/json" ELSE "text/plain")
                     \o CRLF
                     \o "Content-Length: " \o ToString(EncodedLen(call.out.text))
                     \o CRLF \o CRLF \o call.out.text

\* the text after the first "\r\n\r\n" of a buffer, "" without one
AfterBlankLine(text) ==
    LET i == Find(text, CRLF \o CRLF)
    IN  IF i = 0 THEN "" ELSE SubSeq(text, i + 4, Len(text))

\* the worker finished a request that Request.prepare parsed
Parsed == pc = "done" /\ raw # None /\ branch # None

\* C22: the parsed body is the text after the first "\r\n\r\n" of the raw
\* buffer when the method is the body-bearing verb POST and is empty for
\* every other method, so a handler with the body calling convention that is
\* matched on another method receives the empty string whatever follows the
\* blank line.
C22_BodyOnlyForPost ==
    Parsed =>
        /\ req.body = IF req.method = "POST" THEN AfterBlankLine(raw) ELSE ""
        /\ (call # NoCall /\ call.conv = "body")
             => call.arg.body = IF req.method = "POST" THEN AfterBlankLine(raw) ELSE ""

\* GET /hello with a JSON body after the blank line, matched to a handler
\* with the body calling convention that was called with ""
C22_Witness ==
    /\ Parsed
    /\ req.method = "GET"
    /\ AfterBlankLine(raw) = JsonLoginBody
    /\ call # NoCall
    /\ call.conv = "body"
    /\ call.hook = "chat_login"
    /\ call.arg = [body |-> ""]
    /\ Len(sent) = 1

\* packet k carries the bytes of the protected page www/index.html
SendsProtectedPage(k) ==
    /\ "www/index.html" \in DOMAIN files
    /\ files["www/index.html"].kind = "file"
    /\ StandardHead(sent[k])
    /\ EndsWith(sent[k], CRLF \o CRLF \o files["www/index.html"].data)

\* C26: outside the responses a registered hook builds, the bytes of the
\* protected page www/index.html are sent only to a request that carries the
\* cookie auth=true or as the result of a successful POST /login; no other
\* spelling of the path obtains the file without the cookie.
C26_ProtectedPage ==
    \A k \in 1..Len(sent) :
        (pc = "done" /\ branch \in {"login", "guard", "static"} /\ SendsProtectedPage(k))
            => \/ Admitted(req.cookies)
               \/ /\ branch = "login"
                  /\ CredentialsOk(DictGet(parse_form_data(req.body), "username", ""),
                                   DictGet(parse_form_data(req.body), "password", ""))

\* the lines of a buffer that precede its first blank line
BeforeBlankLine(text) ==
    LET i == Find(text, CRLF \o CRLF)
    IN  IF i = 0 THEN text ELSE SubSeq(text, 1, i - 1)

\* C27: the headers and cookies parsed from a request depend only on the
\* lines that precede the first blank line of the buffer: they are the ones
\* parsed from the buffer cut at its first blank line, so a body line such
\* as "Cookie: auth=true" cannot make the protected-route guard admit a
\* request.
C27_HeadersFromHead ==
    Parsed =>
        /\ req.headers = prepare_headers(BeforeBlankLine(raw))
        /\ req.cookies = parse_cookies(prepare_headers(BeforeBlankLine(raw)))
        /\ (branch = "guard" /\ Len(sent) = 1 /\ StandardHead(sent[1]))
             => Admitted(parse_cookies(prepare_headers(BeforeBlankLine(raw))))

\* C23: every run of the peer sweep removes exactly the peers whose last_seen
\* is more than 300 seconds older than the time the sweep read at its start
\* (before it took the lock) and no other peer: a peer last seen at most 300
\* seconds before that time, also one refreshed between the sweep's time
\* read and its lock acquisition, is in the registry after the sweep with
\* its record unchanged, and the sweep adds no peer.
C23_SweepExact ==
    [][(sw.pc = "locked" /\ sw'.pc = "sleep") =>
         /\ DOMAIN active_peers' \subseteq DOMAIN active_peers
         /\ \A pid \in DOMAIN active_peers :
              IF active_peers[pid].last_seen + 300 < sw.now
              THEN pid \notin DOMAIN active_peers'
              ELSE /\ pid \in DOMAIN active_peers'
                   /\ active_peers'[pid] = active_peers[pid]]_vars

\* a sweep that read the time 301 has run: the peer last seen at 1, exactly
\* 300 seconds before, is still registered, and no peer seen earlier is
C23_Witness ==
    /\ sw.pc = "sleep"
    /\ sw.runs = 1
    /\ sw.now = 301
    /\ clock = 301
    /\ DOMAIN active_peers = {"bob"}
    /\ active_peers["bob"].last_seen = 1
    /\ started = 2
    /\ \A t \in Threads : th[t].pc = "idle"

\* the entries of all message logs, each as <<channel, index>>
LogSlots == UNION {{<<c, i>> : i \in 1..Len(channels[c].messages)} : c \in DOMAIN channels}

\* the handlers that have appended their entry and not yet returned
PastAppend ==
    {t \in Threads : th[t].rq.op \in {"broadcast_peer", "send_peer"}
                     /\ th[t].pc \in {"_touch_peer", "_list_peers"}}

\* thread t takes the step that appends its entry
Appends(t) == th[t].pc = "_append_message" /\ th'[t].pc # "_append_message"

\* C24: under any interleaving of concurrent broadcast-peer and send-peer
\* handlers each channel's message log is append-only: every accepted
\* broadcast or send adds exactly one entry, at the end of the log of its
\* channel; no step removes, overwrites or reorders an entry, and a channel
\* once created is never deleted.
C24_AppendOnly ==
    /\ [](Cardinality(LogSlots) = accepted + Cardinality(PastAppend))
    /\ [][/\ DOMAIN channels \subseteq DOMAIN channels'
          /\ \A c \in DOMAIN channels' \ DOMAIN channels : channels'[c].messages = <<>>
          /\ \A t \in Threads : Appends(t) =>
               channels'[ChannelOf(th[t].rq)].messages
                 = Append(channels[ChannelOf(th[t].rq)].messages, Entry(th[t].rq))
          /\ \A c \in DOMAIN channels :
               \/ channels'[c].messages = channels[c].messages
               \/ \E t \in Threads :
                    /\ Appends(t)
                    /\ ChannelOf(th[t].rq) = c
                    /\ Len(channels'[c].messages) = Len(channels[c].messages) + 1
                    /\ SubSeq(channels'[c].messages, 1, Len(channels[c].messages))
                         = channels[c].messages]_vars

\* a broadcast and a send run at the same time, both have appended to the
\* channel "general" and neither has returned: the log holds both entries
C24_Witness ==
    /\ PastAppend = Threads
    /\ \E t \in Threads : th[t].rq.op = "broadcast_peer"
    /\ \E t \in Threads : th[t].rq.op = "send_peer"
    /\ accepted = 0
    /\ Len(channels["general"].messages) = 2
    /\ channels["general"].messages[1].from = "carol"
    /\ channels["general"].messages[2].from = "alice"

\* C28: in every reachable state of the channel registry, under any
\* interleaving of concurrent broadcast-peer and send-peer handlers, no
\* channel's member list holds the same peer twice, and the sender of every
\* entry of a channel's message log is a member of that channel.
C28_Members ==
    \A c \in DOMAIN channels :
        /\ Cardinality(Range(channels[c].members)) = Len(channels[c].members)
        /\ \A i \in 1..Len(channels[c].messages) :
             channels[c].messages[i].from \in Range(channels[c].members)

\* two broadcasts of the same sender run at the same time and both have
\* appended to "general": two entries, the sender a member once
C28_Witness ==
    /\ PastAppend = Threads
    /\ \A t \in Threads : th[t].rq.op = "broadcast_peer" /\ th[t].rq.from_peer = "alice"
    /\ Len(channels["general"].messages) = 2
    /\ channels["general"].members = <<"alice">>

\* thread t takes the step that runs the body of the helper step
Runs(t, step) == th[t].pc = step /\ _PEER_LOCK = t /\ _PEER_LOCK' = None

\* C29: the key set of the peer registry changes only by a successful
\* submit-info, which adds or overwrites exactly the submitted peer-id, and
\* by the sweep, which only removes; no step of login, get-list,
\* connect-peer, broadcast-peer, send-peer, get-messages or channels adds or
\* removes a peer, a broadcast or send from an unregistered sender leaves
\* the registry unchanged, and so does a submit-info rejected for missing or
\* invalid fields.
C29_RegistryFrame ==
    [][/\ DOMAIN active_peers' # DOMAIN active_peers =>
            \/ \E t \in Threads :
                 /\ Runs(t, "_register_peer")
                 /\ th[t].rq.op = "submit_info"
                 /\ Valid(th[t].rq)
                 /\ DOMAIN active_peers' = DOMAIN active_peers \cup {th[t].rq.peer_id}
            \/ /\ sw.pc = "locked"
               /\ sw'.pc = "sleep"
               /\ DOMAIN active_peers' \subseteq DOMAIN active_peers
       /\ \A t \in Threads :
            /\ Runs(t, "_register_peer") =>
                 \A pid \in DOMAIN active_peers \ {th[t].rq.peer_id} :
                     /\ pid \in DOMAIN active_peers'
                     /\ active_peers'[pid] = active_peers[pid]
            /\ (Runs(t, "_touch_peer") /\ th[t].rq.from_peer \notin DOMAIN active_peers)
                 => active_peers' = active_peers
            /\ (th[t].pc = "idle" /\ started' = started + 1 /\ th'[t].pc = "idle")
                 => active_peers' = active_peers]_vars

\* alice registered, then carol, who never did, sent a message that was
\* accepted: the registry holds alice alone
C29_Witness ==
    /\ started = 2
    /\ accepted = 1
    /\ \A t \in Threads : th[t].pc = "idle"
    /\ DOMAIN active_peers = {"alice"}
    /\ "general" \in DOMAIN channels
    /\ channels["general"].messages = <<[from |-> "carol", message |-> "yo", channel |-> "general"]>>

\* the threads that can hold a lock
LockUsers == Threads \cup {Sweeper}

\* thread x takes a step
Moves(x) == IF x = Sweeper THEN sw' # sw ELSE th'[x] # th[x]

\* the holder of each lock is inside the "with" block of that lock
HolderInside ==
    /\ _PEER_LOCK \in Threads => th[_PEER_LOCK].pc \in PeerSteps
    /\ _PEER_LOCK = Sweeper => sw.pc = "locked"
    /\ _CHAN_LOCK \in Threads => th[_CHAN_LOCK].pc \in ChanSteps
    /\ _CHAN_LOCK # Sweeper

\* C25: no thread ever holds the peer-registry lock and the channel-registry
\* lock at the same time, and the step a thread takes while it holds a lock
\* releases that lock before the handler or the sweeper does anything else;
\* so the holder of a lock can always go on, no interleaving of handlers and
\* the sweeper deadlocks, and under fair scheduling every handler invocation
\* returns: in a run of finitely many invocations all handler threads are
\* idle from some point on.
C25_LocksAndTermination ==
    /\ [](\A x \in LockUsers : ~(_PEER_LOCK = x /\ _CHAN_LOCK = x))
    /\ []HolderInside
    /\ [][\A x \in LockUsers :
            /\ (_PEER_LOCK = x /\ Moves(x)) => _PEER_LOCK' = None
            /\ (_CHAN_LOCK = x /\ Moves(x)) => _CHAN_LOCK' = None]_vars
    /\ <>[](\A t \in Threads : th[t].pc = "idle")

\* one handler holds the peer lock, the other the channel lock, and the
\* sweeper waits for the peer lock
C25_Witness ==
    /\ _PEER_LOCK = "t1"
    /\ _CHAN_LOCK = "t2"
    /\ th["t1"].pc = "_touch_peer"
    /\ th["t2"].pc = "_append_message"
    /\ sw.pc = "acquire"

====
